---------------------------- MODULE Spec2Model ----------------------------
(***************************************************************************)
(* A model of mcpm's engines: discovery (src/src/discovery.rs), the stdio  *)
(* health probe (src/src/health.rs), the config writer                     *)
(* (src/src/config_writer.rs) and the application's server list with its   *)
(* health checks (src/src/app.rs).  Each engine has its own specification; *)
(* the variables of the engines a specification does not drive stay at     *)
(* their idle values.                                                      *)
(***************************************************************************)
EXTENDS Integers, Sequences, FiniteSets, TLC

VARIABLES
    cwd,        \* the working directory discover / the writer is given
    fs,         \* the file system: path -> file content
    dpc,        \* discovery: "idle" before discover has run, "done" after
    result,     \* discovery: the DiscoveryResult of the last discover
    tobj,       \* transport check: the server object handed to parse_transport
    tres,       \* transport check: what parse_transport returned for tobj
    ppc,        \* probe: where check_stdio's thread is
    child,      \* probe: the child process: "none", "running", "exited", "killed", "reaped"
    kills,      \* probe: how many times child.kill() was called
    waits,      \* probe: how many times child.wait() was called
    stdin,      \* probe: the child's stdin handle: "child", "held", "dropped"
    script,     \* probe: what the child has still to write to its stdout
    exits,      \* probe: whether the child exits once it has written everything
    pipe,       \* probe: the stdout pipe: written by the child, not yet read
    rpc,        \* probe: the reader thread: "none", "reading", "done"
    output,     \* probe: the reader thread's accumulated output
    chan,       \* probe: the messages sent on read_tx, not yet received
    elapsed,    \* probe: whether TIMEOUT has passed since recv_timeout was called
    presult,    \* probe: check_stdio's local result
    pstatus,    \* probe: the HealthStatus check_stdio returned
    hist,       \* probe: what happened, for the properties (never read by the code)
    wpc,        \* writer: where add_server / remove_server is
    wop,        \* writer: the call's arguments (client, name, server_value)
    wpath,      \* writer: the destination path config_path resolved
    wroot,      \* writer: the document in memory (root)
    wret,       \* writer: the Result the call returned
    wpre,       \* writer: the destination's content when the call began (history)
    wnew,       \* writer: the document write_atomic was handed (history)
    wfs,        \* writer: the file system when the call began (history)
    ptransport, \* probe: the transport of the server check_server is given
    pout,       \* probe: the HealthResult, and whether it was returned or sent
    rdata,      \* reader functions: the bytes handed to the function
    rstatus,    \* reader functions: what the function made of rdata
    aresult,    \* app: App.result, the DiscoveryResult on display
    selected,   \* app: App.selected, an index into result.servers (from 0)
    checking_count, \* app: App.checking_count
    threads,    \* app: the health-check threads that have not sent yet
    health_rx,  \* app: the HealthResults sent and not yet received
    now,        \* app: the clock Instant::now() reads
    ahist,      \* app: the launches so far (never read by the code)
    rtin,       \* round trip: the command, args and env handed to build_server_value
    rtval,      \* round trip: the value build_server_value made of them
    rtout,      \* round trip: the record the discovery parser made of the value
    mode,       \* app: App.mode, Normal or the dialog that is open
    status_message, \* app: App.status_message
    bpc,        \* batch: where execute_add / execute_remove / execute_sync is
    batch       \* batch: the executor's locals (name, clients, errors, success_count)

fileVars == << cwd, fs >>
discVars == << dpc, result >>
transVars == << tobj, tres >>
probeVars == << ppc, child, kills, waits, stdin, script, exits, pipe, rpc, output,
                chan, elapsed, presult, pstatus, hist >>
writerVars == << wpc, wop, wpath, wroot, wret, wpre, wnew >>
callVars == << ptransport, pout >>
readVars == << rdata, rstatus >>
appVars == << aresult, selected, checking_count, threads, health_rx, now, ahist >>
tripVars == << rtin, rtval, rtout >>
batchVars == << mode, status_message, bpc, batch >>
vars == << fileVars, discVars, transVars, probeVars, writerVars, wfs, callVars,
           readVars, appVars, tripVars, batchVars >>

(***************************************************************************)
(* serde_json::Value.  Every value is a tagged record, so that two values  *)
(* of different JSON types are comparable and unequal.                     *)
(***************************************************************************)
JNull == [t |-> "null"]
JStr(s) == [t |-> "str", s |-> s]
JNum(n) == [t |-> "num", n |-> n]
JArr(a) == [t |-> "arr", a |-> a]
JObj(m) == [t |-> "obj", m |-> m]

\* Option::None, for the Option-returning accessors.
NONE == [t |-> "none"]

EmptyMap == [k \in {} |-> JNull]

\* One-entry and two-entry maps.
Map1(k, v) == [x \in {k} |-> v]
Map2(k1, v1, k2, v2) == [x \in {k1, k2} |-> IF x = k1 THEN v1 ELSE v2]

\* m with key k bound to v (serde_json::Map::insert).
MapInsert(m, k, v) == [x \in (DOMAIN m) \cup {k} |-> IF x = k THEN v ELSE m[x]]

\* Map::remove emptying a map that does not hold the key.
MutMapRemoveOrClear(m, k) == IF k \in DOMAIN m THEN [x \in (DOMAIN m) \ {k} |-> m[x]] ELSE EmptyMap

\* Map::remove emptying the map that holds the key.
MutMapRemoveAll(m, k) == IF k \in DOMAIN m THEN EmptyMap ELSE m

\* m without key k (serde_json::Map::remove).
MapRemove(m, k) == [x \in (DOMAIN m) \ {k} |-> m[x]]

\* Value::get(key): Some(member) of an object that has the key, else None.
Get(v, k) == IF v.t = "obj" /\ k \in DOMAIN v.m THEN v.m[k] ELSE NONE

\* Index<&str> for Value (v[key]): the member, or Null when v is no object
\* or has no such member.
Idx(v, k) == IF v.t = "obj" /\ k \in DOMAIN v.m THEN v.m[k] ELSE JNull

IsSome(o) == o.t # "none"
IsObject(v) == v.t = "obj"
IsStr(v) == v.t = "str"

\* Option<&Value>::and_then(Value::as_str).unwrap_or(d), and
\* Value::as_str().unwrap_or(d) on an indexed member.
AsStrOr(v, d) == IF v.t = "str" THEN v.s ELSE d

(***************************************************************************)
(* serde_json::Map iterates in key order (it is a BTreeMap unless the      *)
(* preserve_order feature is chosen).  AllKeysSorted lists every key the   *)
(* model's documents use, in byte order.                                   *)
(***************************************************************************)
AllKeysSorted ==
    << "/p1", "/p2", "alpha", "args", "beta", "command", "env", "headers",
       "mcpServers", "projects", "servers", "theme", "type", "url" >>

\* The keys of map m, in iteration order.
SortedKeys(m) == SelectSeq(AllKeysSorted, LAMBDA k : k \in DOMAIN m)

(***************************************************************************)
(* Files.  A file is absent, or holds text: a JSON document in some        *)
(* formatting, or text that is not JSON.                                   *)
(***************************************************************************)
Absent == [t |-> "absent"]
FileJson(doc, fmt) == [t |-> "json", doc |-> doc, fmt |-> fmt]
FileBad(why) == [t |-> "bad", why |-> why]

\* std::fs::read_to_string: Ok(text) of a file that is there.
ReadOk(c) == c.t # "absent"

\* serde_json::from_str on a file's text.
FromStrOk(c) == c.t = "json"
FromStrErr(c) == IF c.t = "bad" THEN c.why ELSE "EOF while parsing"

\* Path::exists.
Exists(files, p) == files[p].t # "absent"

(***************************************************************************)
(* types.rs                                                                *)
(***************************************************************************)
\* ClientKind::all(): all variants in display order.
ClientKindAll ==
    << "ClaudeCodeGlobal", "ClaudeCodeProject", "CursorGlobal", "CursorProject",
       "VsCodeProject", "Windsurf", "ClaudeDesktop" >>

\* Transport.
Http(url, headers) == [t |-> "Http", url |-> url, headers |-> headers]
Sse(url) == [t |-> "Sse", url |-> url]
Stdio(command, args) == [t |-> "Stdio", command |-> command, args |-> args]
Unknown == [t |-> "Unknown"]

\* Option<HashMap<String, String>>::Some.
SomeMap(m) == [t |-> "some", m |-> m]

\* McpServer, as discovery creates it: health Unchecked, never checked.
McpServer(name, client, source, transport, env) ==
    [ name |-> name, client |-> client, source_path |-> source,
      transport |-> transport, env |-> env,
      health |-> [t |-> "Unchecked"], last_checked |-> NONE ]

\* DiscoveryResult::default().
DiscoveryResultDefault == [servers |-> << >>, active_clients |-> << >>, errors |-> << >>]

(***************************************************************************)
(* discovery.rs: helpers                                                   *)
(***************************************************************************)
\* A path is <<directory, path relative to it>>.
home(rel) == << "home", rel >>
Join(dir, rel) == << dir, rel >>

\* format!("{}: {}", src, e)
FormatError(src, e) == << src, ": ", e >>

\* read_json_with_errors: [ok, val, src, errors].  An unreadable file is
\* skipped silently; text that is not JSON adds one error string.
MutReadNoisyAbsent(files, path, errors) ==
    LET c == files[path]
    IN  IF ~ReadOk(c)
        THEN [ok |-> FALSE, val |-> JNull, src |-> path,
              errors |-> Append(errors, FormatError(path, "No such file or directory"))]
        ELSE IF FromStrOk(c)
             THEN [ok |-> TRUE, val |-> c.doc, src |-> path, errors |-> errors]
             ELSE [ok |-> FALSE, val |-> JNull, src |-> path,
                   errors |-> Append(errors, FormatError(path, FromStrErr(c)))]

MutReadSilentBad(files, path, errors) ==
    LET c == files[path]
    IN  IF ReadOk(c) /\ FromStrOk(c)
        THEN [ok |-> TRUE, val |-> c.doc, src |-> path, errors |-> errors]
        ELSE [ok |-> FALSE, val |-> JNull, src |-> path, errors |-> errors]

read_json_with_errors(files, path, errors) ==
    LET c == files[path]
    IN  IF ~ReadOk(c)
        THEN [ok |-> FALSE, val |-> JNull, src |-> path, errors |-> errors]
        ELSE IF FromStrOk(c)
             THEN [ok |-> TRUE, val |-> c.doc, src |-> path, errors |-> errors]
             ELSE [ok |-> FALSE, val |-> JNull, src |-> path,
                   errors |-> Append(errors, FormatError(path, FromStrErr(c)))]

\* parse_string_map: None unless v is Some(object); then the members whose
\* value is a string.
parse_string_map(v) ==
    IF v.t # "obj" THEN NONE
    ELSE SomeMap([k \in {x \in DOMAIN v.m : IsStr(v.m[x])} |-> v.m[k].s])

\* obj.get("args").and_then(Value::as_array): the string elements, in order;
\* empty when there is no array.
ParseArgs(obj) ==
    LET a == Get(obj, "args")
    IN  IF a.t # "arr" THEN << >>
        ELSE LET strs == SelectSeq(a.a, IsStr)
             IN  [i \in 1..Len(strs) |-> strs[i].s]

\* parse_transport: the match on the type string, arm by arm.
parse_transport(obj) ==
    LET ttype == AsStrOr(Get(obj, "type"), "")
    IN  IF ttype = "http"
        THEN Http(AsStrOr(Idx(obj, "url"), ""), parse_string_map(Get(obj, "headers")))
        ELSE IF ttype = "sse"
        THEN Sse(AsStrOr(Idx(obj, "url"), ""))
        ELSE IF IsSome(Get(obj, "command")) \/ ttype = "stdio"
        THEN Stdio(AsStrOr(Idx(obj, "command"), ""), ParseArgs(obj))
        ELSE IF IsSome(Get(obj, "url"))
        THEN Http(AsStrOr(Idx(obj, "url"), ""), parse_string_map(Get(obj, "headers")))
        ELSE Unknown

\* parse_server_map: one record per member that is an object, in the map's
\* iteration order.
parse_server_map(map, client, source) ==
    LET names == SelectSeq(SortedKeys(map), LAMBDA k : IsObject(map[k]))
    IN  [i \in 1..Len(names) |->
            McpServer(names[i], client, source,
                      parse_transport(map[names[i]]),
                      parse_string_map(Get(map[names[i]], "env")))]

\* result.servers.extend(more): every record is kept, whatever was collected
\* before.
MutExtendUnseenNames(res, more) ==
    [res EXCEPT !.servers = res.servers \o
        SelectSeq(more, LAMBDA s : \A i \in 1..Len(res.servers) : res.servers[i].name # s.name)]

WithServers(res, more) == [res EXCEPT !.servers = res.servers \o more]

(***************************************************************************)
(* discovery.rs: the scanners.  Each takes the DiscoveryResult so far and  *)
(* gives the one after it.                                                 *)
(***************************************************************************)
\* The loop body of lines 150-154: push each server whose name seen.insert
\* accepts.  Gives [seen, servers].
RECURSIVE PushUnseen(_, _, _)
MutPushAll(list, seen, acc) ==
    [seen |-> seen \cup {list[i].name : i \in 1..Len(list)}, servers |-> acc \o list]

PushUnseen(list, seen, acc) ==
    IF list = << >> THEN [seen |-> seen, servers |-> acc]
    ELSE LET s == Head(list)
         IN  IF s.name \in seen
             THEN PushUnseen(Tail(list), seen, acc)
             ELSE PushUnseen(Tail(list), seen \cup {s.name}, Append(acc, s))

\* The loop of lines 148-156 over the projects map, in iteration order.
RECURSIVE ScanProjects(_, _, _, _, _)
ScanProjects(keys, projects, src, seen, acc) ==
    IF keys = << >> THEN acc
    ELSE LET mcp == Idx(projects[Head(keys)], "mcpServers")
             step == IF IsObject(mcp)
                     THEN PushUnseen(parse_server_map(mcp.m, "ClaudeCodeGlobal", src),
                                     seen, acc)
                     ELSE [seen |-> seen, servers |-> acc]
         IN  ScanProjects(Tail(keys), projects, src, step.seen, step.servers)

\* scan_claude_code_global: ~/.claude.json, the root mcpServers map and then
\* every projects.<path>.mcpServers map, deduplicated by name.
scan_claude_code_global(files, res) ==
    LET r == read_json_with_errors(files, home(".claude.json"), res.errors)
        res1 == [res EXCEPT !.errors = r.errors]
    IN  IF ~r.ok THEN res1
        ELSE LET mcp == Idx(r.val, "mcpServers")
                 top == IF IsObject(mcp)
                        THEN parse_server_map(mcp.m, "ClaudeCodeGlobal", r.src)
                        ELSE << >>
                 seen == {top[i].name : i \in 1..Len(top)}
                 res2 == WithServers(res1, top)
                 projects == Idx(r.val, "projects")
             IN  IF IsObject(projects)
                 THEN [res2 EXCEPT !.servers =
                          ScanProjects(SortedKeys(projects.m), projects.m, r.src,
                                       seen, res2.servers)]
                 ELSE res2

\* scan_mcp_json taking the wrapped form whenever the key is there.
MutWrappedIfKey(dir, files, res) ==
    LET r == read_json_with_errors(files, Join(dir, ".mcp.json"), res.errors)
        res1 == [res EXCEPT !.errors = r.errors]
    IN  IF ~r.ok THEN res1
        ELSE LET mcp == Get(r.val, "mcpServers")
             IN  IF IsSome(mcp)
                 THEN IF IsObject(mcp)
                      THEN WithServers(res1, parse_server_map(mcp.m, "ClaudeCodeProject", r.src))
                      ELSE res1
                 ELSE IF IsObject(r.val)
                 THEN WithServers(res1, parse_server_map(r.val.m, "ClaudeCodeProject", r.src))
                 ELSE res1

\* scan_mcp_json: ./.mcp.json, wrapped (mcpServers) first, else flat.
scan_mcp_json(dir, files, res) ==
    LET r == read_json_with_errors(files, Join(dir, ".mcp.json"), res.errors)
        res1 == [res EXCEPT !.errors = r.errors]
    IN  IF ~r.ok THEN res1
        ELSE LET mcp == Idx(r.val, "mcpServers")
             IN  IF IsObject(mcp)
                 THEN WithServers(res1, parse_server_map(mcp.m, "ClaudeCodeProject", r.src))
                 ELSE IF IsObject(r.val)
                 THEN WithServers(res1, parse_server_map(r.val.m, "ClaudeCodeProject", r.src))
                 ELSE res1

\* scan_wrapped: a file of the form { "mcpServers": { ... } }.
scan_wrapped(path, client, files, res) ==
    LET r == read_json_with_errors(files, path, res.errors)
        res1 == [res EXCEPT !.errors = r.errors]
    IN  IF ~r.ok THEN res1
        ELSE LET mcp == Idx(r.val, "mcpServers")
             IN  IF IsObject(mcp)
                 THEN WithServers(res1, parse_server_map(mcp.m, client, r.src))
                 ELSE res1

\* scan_vscode: ./.vscode/mcp.json, "servers" first, "mcpServers" as fallback.
scan_vscode(dir, files, res) ==
    LET r == read_json_with_errors(files, Join(dir, ".vscode/mcp.json"), res.errors)
        res1 == [res EXCEPT !.errors = r.errors]
    IN  IF ~r.ok THEN res1
        ELSE LET map == IF IsObject(Idx(r.val, "servers"))
                        THEN Idx(r.val, "servers")
                        ELSE Idx(r.val, "mcpServers")
             IN  IF IsObject(map)
                 THEN WithServers(res1, parse_server_map(map.m, "VsCodeProject", r.src))
                 ELSE res1

\* The candidates of scan_claude_desktop: the macOS path, then the Linux one.
DesktopCandidates ==
    << home("Library/Application Support/Claude/claude_desktop_config.json"),
       home(".config/Claude/claude_desktop_config.json") >>

\* scan_claude_desktop: the first candidate that exists, and no other.
scan_claude_desktop(files, res) ==
    IF Exists(files, DesktopCandidates[1])
    THEN scan_wrapped(DesktopCandidates[1], "ClaudeDesktop", files, res)
    ELSE IF Exists(files, DesktopCandidates[2])
    THEN scan_wrapped(DesktopCandidates[2], "ClaudeDesktop", files, res)
    ELSE res

\* Lines 28-33 of discover: the ClientKinds that own a record, in the order
\* of ClientKind::all().
MutActiveInScanOrder(servers) ==
    [i \in 1..Len(servers) |-> servers[i].client]

ActiveClients(servers) ==
    LET seen == {servers[i].client : i \in 1..Len(servers)}
    IN  SelectSeq(ClientKindAll, LAMBDA c : c \in seen)

\* discover(cwd).
discover(dir, files) ==
    LET r1 == scan_claude_code_global(files, DiscoveryResultDefault)
        r2 == scan_mcp_json(dir, files, r1)
        r3 == scan_wrapped(home(".cursor/mcp.json"), "CursorGlobal", files, r2)
        r4 == scan_wrapped(Join(dir, ".cursor/mcp.json"), "CursorProject", files, r3)
        r5 == scan_vscode(dir, files, r4)
        r6 == scan_wrapped(home(".codeium/windsurf/mcp_config.json"), "Windsurf", files, r5)
        r7 == scan_claude_desktop(files, r6)
    IN  [r7 EXCEPT !.active_clients = ActiveClients(r7.servers)]

(***************************************************************************)
(* The inputs of discovery: working directories, paths and documents.      *)
(***************************************************************************)
\* At most this many of the scanned files are present at once.
MaxPresent == 3

Dirs == {"home", "proj"}
Names == {"alpha", "beta"}
ProjectOrder == << "/p1", "/p2" >>

HomeRels ==
    { ".claude.json", ".cursor/mcp.json", ".codeium/windsurf/mcp_config.json",
      "Library/Application Support/Claude/claude_desktop_config.json",
      ".config/Claude/claude_desktop_config.json" }
CwdRels == { ".mcp.json", ".cursor/mcp.json", ".vscode/mcp.json" }

AllPaths == {home(r) : r \in HomeRels \cup CwdRels} \cup {Join("proj", r) : r \in CwdRels}

\* The paths discover(dir) reads.
ScannedPaths(dir) == {home(r) : r \in HomeRels} \cup {Join(dir, r) : r \in CwdRels}

NoFiles == [p \in AllPaths |-> Absent]

\* A stdio server entry whose command names where it was written, a remote
\* one, and a member that is no server object.
Entry(tag) == JObj(Map1("command", JStr(tag)))
UrlEntry(tag) == JObj(Map1("url", JStr(tag)))
NotAServer == JStr("off")

Compact(doc) == FileJson(doc, "compact")
Garbage == FileBad("expected value at line 1 column 1")

\* ~/.claude.json with a root map and per-project maps; each entry's command
\* is "root" or its project's key.  An option is NONE or SomeMap(map).
MapsOver(tag) ==
    UNION {[S -> {Entry(tag), NotAServer}] : S \in SUBSET Names}
MapOptions(tag) == {NONE} \cup {SomeMap(m) : m \in MapsOver(tag)}

ProjectsMap(p1, p2) ==
    [k \in {x \in {"/p1", "/p2"} : (IF x = "/p1" THEN p1 ELSE p2).t = "some"} |->
        JObj(Map1("mcpServers", JObj((IF k = "/p1" THEN p1 ELSE p2).m)))]

GlobalDoc(root, p1, p2) ==
    LET withRoot == IF root.t = "some"
                    THEN Map1("mcpServers", JObj(root.m)) ELSE EmptyMap
    IN  JObj(IF p1.t = "some" \/ p2.t = "some"
             THEN MapInsert(withRoot, "projects", JObj(ProjectsMap(p1, p2)))
             ELSE withRoot)

\* The files with only ~/.claude.json present, holding GlobalDoc(r, p1, p2).
GlobalOnlyFs(r, p1, p2) ==
    [NoFiles EXCEPT ![home(".claude.json")] = Compact(GlobalDoc(r, p1, p2))]

Wrapped1(tag) == JObj(Map1("mcpServers", JObj(Map1("alpha", Entry(tag)))))
Wrapped2(tag) ==
    JObj(Map2("mcpServers", JObj(Map2("alpha", Entry(tag), "beta", UrlEntry(tag))),
              "theme", JStr("dark")))
WrappedNoMap == JObj(Map1("mcpServers", JStr("none")))
Flat(tag) == JObj(Map2("alpha", Entry(tag), "theme", JStr("dark")))
WrappedAndFlat(tag) ==
    JObj(Map2("mcpServers", JObj(Map1("beta", Entry(tag))), "alpha", Entry(tag)))
\* A document whose mcpServers member is null beside a top-level entry.
NullMapAndFlat(tag) == JObj(Map2("mcpServers", JNull, "alpha", Entry(tag)))
VsServers(tag) == JObj(Map1("servers", JObj(Map2("alpha", Entry(tag), "beta", NotAServer))))
VsBoth(tag) ==
    JObj(Map2("servers", JObj(Map1("alpha", Entry(tag))),
              "mcpServers", JObj(Map1("beta", Entry(tag)))))

Choices(p) ==
    LET tag == p[2]
    IN  IF tag = ".claude.json"
        THEN << Garbage,
                Compact(GlobalDoc(SomeMap(Map1("alpha", Entry("root"))),
                                  SomeMap(Map2("alpha", Entry("/p1"), "beta", Entry("/p1"))),
                                  NONE)),
                Compact(JObj(Map1("mcpServers", JObj(Map1("beta", UrlEntry("root")))))),
                Compact(JArr(<< >>)) >>
        ELSE IF tag = ".mcp.json"
        THEN << Garbage, Compact(Wrapped1(tag)), Compact(Flat(tag)),
                Compact(WrappedAndFlat(tag)), Compact(NullMapAndFlat(tag)) >>
        ELSE IF tag = ".vscode/mcp.json"
        THEN << Garbage, Compact(VsServers(tag)), Compact(Wrapped1(tag)),
                Compact(VsBoth(tag)) >>
        ELSE << Garbage, Compact(Wrapped1(tag)), Compact(Wrapped2(tag)),
                Compact(WrappedNoMap) >>

\* What a present file other than a GlobalDocs one holds: as many choices for
\* each path, and one more for the project file.
NumChoices == Len(Choices(home(".claude.json")))

\* The ways of choosing what each file of S holds.
ChoicesFor(S) ==
    {f \in [S -> 1..(NumChoices + 1)] : \A p \in S : f[p] <= Len(Choices(p))}

\* The files with the paths of S present, path p holding its choice f[p].
SmallFs(S, f) == [p \in AllPaths |-> IF p \in S THEN Choices(p)[f[p]] ELSE Absent]

(***************************************************************************)
(* Idle values of each engine's variables.                                 *)
(***************************************************************************)
FilesIdle == cwd = "proj" /\ fs = NoFiles
DiscoverIdle == dpc = "idle" /\ result = DiscoveryResultDefault
TransportIdle == tobj = JNull /\ tres = NONE
\* Nothing has happened yet to a probe of a child that will write script0.
HistOf(script0) ==
    [script0 |-> script0, spawned |-> FALSE, readErr |-> FALSE, partial |-> FALSE,
     sentInTime |-> FALSE, readInTime |-> FALSE]
HistIdle == HistOf(<< >>)

WriterIdle ==
    /\ wpc = "idle" /\ wop = NONE /\ wpath = NONE /\ wroot = NONE
    /\ wret = NONE /\ wpre = NONE /\ wnew = NONE

SnapIdle == wfs = NONE
CallIdle == ptransport = NONE /\ pout = NONE
ReadIdle == rdata = << >> /\ rstatus = NONE

\* No check was launched and no result sent.
AHistIdle == [launches |-> 0, launched |-> << >>, sent |-> {}]
TripIdle == rtin = NONE /\ rtval = NONE /\ rtout = NONE
Normal == [t |-> "Normal"]
BatchIdle == mode = Normal /\ status_message = NONE /\ bpc = "idle" /\ batch = NONE

AppIdle ==
    /\ aresult = DiscoveryResultDefault /\ selected = 0 /\ checking_count = 0
    /\ threads = << >> /\ health_rx = << >> /\ now = 0 /\ ahist = AHistIdle

ProbeIdle ==
    /\ ppc = "idle" /\ child = "none" /\ kills = 0 /\ waits = 0 /\ stdin = "child"
    /\ script = << >> /\ exits = FALSE /\ pipe = [data |-> << >>, closed |-> FALSE]
    /\ rpc = "none" /\ output = << >> /\ chan = << >> /\ elapsed = FALSE
    /\ presult = NONE /\ pstatus = NONE
    /\ hist = HistIdle

(***************************************************************************)
(* Discovery: discover(cwd) over a file system.                            *)
(***************************************************************************)
InitDiscover ==
    /\ cwd \in Dirs
    /\ \/ \E r \in MapOptions("root"), p1 \in MapOptions("/p1"), p2 \in MapOptions("/p2") :
            fs = GlobalOnlyFs(r, p1, p2)
       \/ \E S \in SUBSET ScannedPaths(cwd) :
            /\ Cardinality(S) <= MaxPresent
            /\ \E f \in ChoicesFor(S) : fs = SmallFs(S, f)
    /\ DiscoverIdle
    /\ TransportIdle
    /\ ProbeIdle
    /\ WriterIdle
    /\ SnapIdle /\ CallIdle /\ ReadIdle /\ AppIdle
    /\ TripIdle /\ BatchIdle

Discover ==
    /\ dpc = "idle"
    /\ result' = discover(cwd, fs)
    /\ dpc' = "done"
    /\ UNCHANGED << fileVars, transVars, probeVars, writerVars, wfs, callVars, readVars,
                    appVars, tripVars, batchVars >>

NextDiscover == Discover

SpecDiscover == InitDiscover /\ [][NextDiscover]_vars

(***************************************************************************)
(* What each client's file declares, stated from the shapes of section 4.2 *)
(* of the specification, for the properties of discovery.                  *)
(***************************************************************************)
\* The file a client kind is read from: for the desktop client the first
\* candidate that exists.
KindPath(k) ==
    CASE k = "ClaudeCodeGlobal" -> home(".claude.json")
      [] k = "ClaudeCodeProject" -> Join(cwd, ".mcp.json")
      [] k = "CursorGlobal" -> home(".cursor/mcp.json")
      [] k = "CursorProject" -> Join(cwd, ".cursor/mcp.json")
      [] k = "VsCodeProject" -> Join(cwd, ".vscode/mcp.json")
      [] k = "Windsurf" -> home(".codeium/windsurf/mcp_config.json")
      [] k = "ClaudeDesktop" ->
            IF fs[DesktopCandidates[1]] = Absent /\ fs[DesktopCandidates[2]] # Absent
            THEN DesktopCandidates[2] ELSE DesktopCandidates[1]

Kinds == {ClientKindAll[i] : i \in 1..Len(ClientKindAll)}

KindValid(k) == fs[KindPath(k)].t = "json"
KindBad(k) == fs[KindPath(k)].t = "bad"

\* Member n of member key of document d, when both are objects; else NONE.
EntryUnder(d, key, n) ==
    IF d.t = "obj" /\ key \in DOMAIN d.m /\ d.m[key].t = "obj"
       /\ n \in DOMAIN d.m[key].m /\ d.m[key].m[n].t = "obj"
    THEN d.m[key].m[n] ELSE NONE

HasMap(d, key) == d.t = "obj" /\ key \in DOMAIN d.m /\ d.m[key].t = "obj"

\* The entry of name n in project p of the global document d, else NONE.
ProjectEntry(d, p, n) ==
    IF HasMap(d, "projects") /\ p \in DOMAIN d.m["projects"].m
    THEN EntryUnder(d.m["projects"].m[p], "mcpServers", n) ELSE NONE

\* The server object client kind k declares under name n, else NONE.
Declared(k, n) ==
    IF ~KindValid(k) THEN NONE
    ELSE LET d == fs[KindPath(k)].doc
         IN  CASE k = "ClaudeCodeGlobal" ->
                    IF EntryUnder(d, "mcpServers", n) # NONE
                    THEN EntryUnder(d, "mcpServers", n)
                    ELSE IF ProjectEntry(d, ProjectOrder[1], n) # NONE
                    THEN ProjectEntry(d, ProjectOrder[1], n)
                    ELSE ProjectEntry(d, ProjectOrder[2], n)
               [] k = "ClaudeCodeProject" ->
                    IF HasMap(d, "mcpServers") THEN EntryUnder(d, "mcpServers", n)
                    ELSE IF d.t = "obj" /\ n \in DOMAIN d.m /\ d.m[n].t = "obj"
                    THEN d.m[n] ELSE NONE
               [] k = "VsCodeProject" ->
                    IF HasMap(d, "servers") THEN EntryUnder(d, "servers", n)
                    ELSE EntryUnder(d, "mcpServers", n)
               [] OTHER -> EntryUnder(d, "mcpServers", n)

\* The transport of the model's entries: Entry(tag) is stdio, UrlEntry(tag) http.
EntryTransport(e) ==
    IF "command" \in DOMAIN e.m THEN Stdio(e.m["command"].s, << >>)
    ELSE Http(e.m["url"].s, NONE)

RecordsOf(k, n) ==
    {i \in 1..Len(result.servers) :
        result.servers[i].client = k /\ result.servers[i].name = n}

\* Kind k has exactly the records its file declares, one per name, each with
\* the kind's path and the entry's transport.
AsDeclared(k) ==
    \A n \in Names :
        IF Declared(k, n) = NONE THEN RecordsOf(k, n) = {}
        ELSE \E i \in 1..Len(result.servers) :
                /\ RecordsOf(k, n) = {i}
                /\ result.servers[i].source_path = KindPath(k)
                /\ result.servers[i].transport = EntryTransport(Declared(k, n))

GlobalFile == fs[home(".claude.json")]

\* The names of the records of client kind k, in the order of the list.
NamesOf(k) ==
    LET recs == SelectSeq(result.servers, LAMBDA r : r.client = k)
    IN  [i \in 1..Len(recs) |-> recs[i].name]

\* The members of map m that are objects.
ObjectMembers(m) == {n \in DOMAIN m : m[n].t = "obj"}

ProjectFile == fs[Join(cwd, ".mcp.json")]

\* C30: when .mcp.json parses, the project client's records are, one each,
\* the object members of mcpServers when that is an object (whatever else
\* the top level holds), and otherwise the object members of the top level.
C30_ProjectFileForms ==
    (dpc = "done" /\ ProjectFile.t = "json") =>
        LET d == ProjectFile.doc
            from == IF HasMap(d, "mcpServers") THEN d.m["mcpServers"].m
                    ELSE IF d.t = "obj" THEN d.m ELSE EmptyMap
            names == NamesOf("ClaudeCodeProject")
        IN  /\ {names[i] : i \in 1..Len(names)} = ObjectMembers(from)
            /\ Len(names) = Cardinality(ObjectMembers(from))
            /\ \A i \in 1..Len(result.servers) :
                  result.servers[i].client = "ClaudeCodeProject" =>
                      result.servers[i].transport =
                          EntryTransport(from[result.servers[i].name])

\* C30 witnesses: the wrapped form beside a top-level server object, which is
\* not a record; and the flat form of a document whose mcpServers is no object.
C30_WitnessWrapped ==
    /\ dpc = "done" /\ ProjectFile = Compact(WrappedAndFlat(".mcp.json"))
    /\ NamesOf("ClaudeCodeProject") = << "beta" >>

C30_Witness ==
    /\ dpc = "done" /\ ProjectFile = Compact(NullMapAndFlat(".mcp.json"))
    /\ NamesOf("ClaudeCodeProject") = << "alpha" >>

\* What tells a record's origin: the command of a stdio record, the url of a
\* remote one.
Origin(server) ==
    IF server.transport.t = "Stdio" THEN server.transport.command
    ELSE IF server.transport.t = "Unknown" THEN "" ELSE server.transport.url

\* C5: the global client has at most one record per name; a name in the root
\* map carries the root entry's data (command "root"), a name only in project
\* maps the data of the earliest project that has it (command = project key).
C5_GlobalDedup ==
    dpc = "done" /\ GlobalFile.t = "json" =>
        \A n \in Names :
            LET d == GlobalFile.doc
                recs == RecordsOf("ClaudeCodeGlobal", n)
                inRoot == EntryUnder(d, "mcpServers", n) # NONE
                inP1 == ProjectEntry(d, "/p1", n) # NONE
                inP2 == ProjectEntry(d, "/p2", n) # NONE
            IN  /\ Cardinality(recs) <= 1
                /\ inRoot =>
                     \E i \in recs : Origin(result.servers[i]) = "root"
                /\ ~inRoot /\ inP1 =>
                     \E i \in recs : Origin(result.servers[i]) = "/p1"
                /\ ~inRoot /\ ~inP1 /\ inP2 =>
                     \E i \in recs : Origin(result.servers[i]) = "/p2"

\* C5 witness: alpha is in the root map and in a project map, beta in both
\* project maps only, and discovery gave two global records.
C5_Witness ==
    /\ dpc = "done" /\ GlobalFile.t = "json"
    /\ EntryUnder(GlobalFile.doc, "mcpServers", "alpha") # NONE
    /\ ProjectEntry(GlobalFile.doc, "/p2", "alpha") # NONE
    /\ EntryUnder(GlobalFile.doc, "mcpServers", "beta") = NONE
    /\ ProjectEntry(GlobalFile.doc, "/p1", "beta") # NONE
    /\ ProjectEntry(GlobalFile.doc, "/p2", "beta") # NONE
    /\ Cardinality({i \in 1..Len(result.servers) :
                       result.servers[i].client = "ClaudeCodeGlobal"}) = 2

\* Kind k has its own record of name n: exactly one, with k's path and the
\* transport of k's entry.
HasOwnRecord(k, n) ==
    \E i \in 1..Len(result.servers) :
        /\ RecordsOf(k, n) = {i}
        /\ result.servers[i].source_path = KindPath(k)
        /\ result.servers[i].transport = EntryTransport(Declared(k, n))

\* C6: when two different client kinds each declare a server of the same
\* name, discover returns a record for each, with its own client, source path
\* and transport.
C6_NoCrossClientDedup ==
    dpc = "done" =>
        \A k1 \in Kinds, k2 \in Kinds, n \in Names :
            k1 # k2 /\ Declared(k1, n) # NONE /\ Declared(k2, n) # NONE
                => HasOwnRecord(k1, n) /\ HasOwnRecord(k2, n)

\* C6 witness: two kinds with different files declare alpha with different
\* data, and discover has run.
C6_Witness ==
    /\ dpc = "done"
    /\ \E k1 \in Kinds, k2 \in Kinds :
          /\ k1 # k2 /\ KindPath(k1) # KindPath(k2)
          /\ Declared(k1, "alpha") # NONE /\ Declared(k2, "alpha") # NONE
          /\ EntryTransport(Declared(k1, "alpha")) # EntryTransport(Declared(k2, "alpha"))
          /\ HasOwnRecord(k1, "alpha") /\ HasOwnRecord(k2, "alpha")

\* The client kinds whose file is there and is not JSON.
BadKinds == {k \in Kinds : KindBad(k)}

C8_AbsentFileSilent ==
    dpc = "done" =>
        \A p \in ScannedPaths(cwd) :
            fs[p] = Absent =>
                /\ \A i \in 1..Len(result.servers) : result.servers[i].source_path # p
                /\ \A i \in 1..Len(result.errors) : result.errors[i][1] # p
                /\ \A k \in Kinds : KindValid(k) => AsDeclared(k)
                /\ Len(result.errors) = Cardinality(BadKinds)

\* C8 witness: the file of a kind in the middle of the scan order is absent,
\* kinds before and after it have servers, and discover has returned them.
C8_Witness ==
    /\ dpc = "done"
    /\ fs[home(".cursor/mcp.json")] = Absent
    /\ fs[Join(cwd, ".vscode/mcp.json")] = Absent
    /\ Declared("ClaudeCodeProject", "alpha") # NONE
    /\ Declared("Windsurf", "beta") # NONE
    /\ Len(result.servers) >= 3
    /\ result.errors = << >>

\* The position of a client kind in ClientKind::all().
Rank(c) == CHOOSE r \in 1..Len(ClientKindAll) : ClientKindAll[r] = c

\* C10: after discover, active_clients holds exactly the kinds that own a
\* record, each once, in the order of ClientKind::all().
C10_ActiveClients ==
    dpc = "done" =>
        LET a == result.active_clients
        IN  /\ {a[i] : i \in 1..Len(a)} =
                  {result.servers[i].client : i \in 1..Len(result.servers)}
            /\ \A i \in 1..Len(a), j \in 1..Len(a) : i < j => Rank(a[i]) < Rank(a[j])

\* C10 witness: three kinds are active, one of them with two records.
C10_Witness ==
    /\ dpc = "done"
    /\ Len(result.active_clients) = 3
    /\ Len(result.servers) > 3

(***************************************************************************)
(* parse_transport over server objects: every combination of a type, a     *)
(* command, a url, an args and a headers member, each absent, well-typed   *)
(* or of another JSON type.                                                *)
(***************************************************************************)
TypeOptions == {NONE, JStr("http"), JStr("sse"), JStr("stdio"), JStr("ws"), JNum(1)}
CommandOptions == {NONE, JStr("npx"), JNum(7)}
UrlOptions == {NONE, JStr("https://x"), JNull}
ArgsOptions == {NONE, JArr(<< JStr("-y"), JNum(1), JStr("srv") >>), JStr("-y")}
HeadersOptions == {NONE, JObj(Map2("Authorization", JStr("Bearer k"), "X-Retries", JNum(3)))}

\* The object with the members that are not NONE.
ServerObj(ty, command, url, args, headers) ==
    LET member == [k \in {"type", "command", "url", "args", "headers"} |->
                      CASE k = "type" -> ty
                        [] k = "command" -> command
                        [] k = "url" -> url
                        [] k = "args" -> args
                        [] k = "headers" -> headers]
    IN  JObj([k \in {x \in DOMAIN member : member[x] # NONE} |-> member[k]])

InitTransport ==
    /\ FilesIdle
    /\ DiscoverIdle
    /\ ProbeIdle
    /\ WriterIdle
    /\ SnapIdle /\ CallIdle /\ ReadIdle /\ AppIdle
    /\ TripIdle /\ BatchIdle
    /\ \E ty \in TypeOptions, command \in CommandOptions, url \in UrlOptions,
          args \in ArgsOptions, headers \in HeadersOptions :
            tobj = ServerObj(ty, command, url, args, headers)
    /\ tres = NONE

ParseTransport ==
    /\ tres = NONE
    /\ tres' = parse_transport(tobj)
    /\ tobj' = tobj
    /\ UNCHANGED << fileVars, discVars, probeVars, writerVars, wfs, callVars, readVars,
                    appVars, tripVars, batchVars >>

NextTransport == ParseTransport

SpecTransport == InitTransport /\ [][NextTransport]_vars

\* The variant the stated precedence gives: an explicit type selects its
\* variant; otherwise a command selects Stdio; otherwise a url with no type
\* selects Http; otherwise Unknown.
StatedVariant(obj) ==
    LET ty == Get(obj, "type")
    IN  IF ty = JStr("http") THEN "Http"
        ELSE IF ty = JStr("sse") THEN "Sse"
        ELSE IF ty = JStr("stdio") THEN "Stdio"
        ELSE IF "command" \in DOMAIN obj.m THEN "Stdio"
        ELSE IF "url" \in DOMAIN obj.m /\ "type" \notin DOMAIN obj.m THEN "Http"
        ELSE "Unknown"

\* C9: for a type that is absent or a string, with or without a command and
\* a url, parse_transport returns the variant of the stated precedence.
C9_TransportPrecedence ==
    tres # NONE /\ Get(tobj, "type").t \in {"none", "str"} =>
        tres.t = StatedVariant(tobj)

\* What parse_transport does with a url: also a type it does not know, with a
\* url and no command, gives Http.
C9_UrlWithUnknownType ==
    /\ tres # NONE
    /\ Get(tobj, "type") = JStr("ws")
    /\ "url" \in DOMAIN tobj.m /\ "command" \notin DOMAIN tobj.m
    /\ tres.t = "Http"

(***************************************************************************)
(* health.rs: the stdio probe.                                             *)
(*                                                                         *)
(* The child's stdout is a sequence of units.  The text of a JSON message  *)
(* is MsgParts units, so that it can be written and read in pieces; the    *)
(* other units are whitespace and bytes that hold no '{' (a Content-Length *)
(* header, a log line).                                                    *)
(***************************************************************************)
\* The number of units the text of a message is cut into.
MsgParts == 2

\* const TIMEOUT: the seconds recv_timeout waits.
TIMEOUT == 5

Part(msg, i) == [t |-> "part", msg |-> msg, i |-> i]
Ws == [t |-> "ws"]
Pre == [t |-> "pre"]

\* The text of message msg (serde_json's serialisation, as the server writes it).
Text(msg) == [i \in 1..MsgParts |-> Part(msg, i)]

\* HealthStatus.
Healthy(name, version) == [t |-> "Healthy", server_name |-> name, server_version |-> version]
HTimeout == [t |-> "Timeout", secs |-> TIMEOUT]
HError(e) == [t |-> "Error", e |-> e]

\* A formatted String: the format text and its argument, a string (JStr), a
\* run of output bytes, or NONE.
Fmt(text, arg) == [text |-> text, arg |-> arg]
Bytes(data) == [t |-> "bytes", data |-> data]

\* A run of n bytes of one kind: "text" (ASCII, no brace), "bad" (bytes that
\* are not valid UTF-8, such as 0xFF) or "fffd" (n replacement characters,
\* three bytes each).  Every other unit stands for one byte.
Run(kind, n) == [t |-> "run", kind |-> kind, n |-> n]
UnitLen(u) ==
    IF u.t = "run" THEN (IF u.kind = "fffd" THEN 3 * u.n ELSE u.n) ELSE 1

RECURSIVE ByteLen(_)
ByteLen(data) == IF data = << >> THEN 0 ELSE UnitLen(Head(data)) + ByteLen(Tail(data))

\* std::str::from_utf8(data) is Ok.
ValidUtf8(data) == \A i \in 1..Len(data) : ~(data[i].t = "run" /\ data[i].kind = "bad")

\* &data[..k], for k <= data.len().
RECURSIVE TakeBytes(_, _)
TakeBytes(data, k) ==
    IF data = << >> \/ k = 0 THEN << >>
    ELSE IF UnitLen(Head(data)) <= k
    THEN << Head(data) >> \o TakeBytes(Tail(data), k - UnitLen(Head(data)))
    ELSE << [Head(data) EXCEPT !.n = k] >>

\* String::from_utf8_lossy: every invalid byte becomes U+FFFD.
from_utf8_lossy(data) ==
    [i \in 1..Len(data) |->
        IF data[i].t = "run" /\ data[i].kind = "bad"
        THEN Run("fffd", data[i].n) ELSE data[i]]

\* text.find('{'): the index of the first unit that holds a '{', 0 for None.
\* A message's text begins with '{', and its later parts follow its first.
FindBrace(data) ==
    LET at == {i \in 1..Len(data) : data[i].t = "part" /\ data[i].i = 1}
    IN  IF at = {} THEN 0 ELSE CHOOSE i \in at : \A j \in at : i <= j

\* serde_json::from_str(json_text): the value, when the text is all the parts
\* of one message, in order, and then whitespace only; else NONE.
FromStrValue(text) ==
    IF /\ Len(text) >= MsgParts
       /\ \A i \in 1..MsgParts : text[i] = Part(text[1].msg, i)
       /\ \A j \in (MsgParts + 1)..Len(text) : text[j] = Ws
    THEN text[1].msg ELSE NONE

\* try_parse_response with a parse failure reported as an error.
MutParseFailureIsError(data) ==
    LET start == FindBrace(data)
        val == IF start = 0 THEN NONE ELSE FromStrValue(SubSeq(data, start, Len(data)))
    IN  IF start = 0 THEN NONE
        ELSE IF val = NONE THEN HError(Fmt("invalid response: {}", Bytes(data)))
        ELSE IF IsSome(Get(val, "result")) THEN Healthy("unknown", "unknown")
        ELSE NONE

\* try_parse_response looking for the error member first.
MutErrorBeforeResult(data) ==
    LET start == FindBrace(data)
        val == IF start = 0 THEN NONE ELSE FromStrValue(SubSeq(data, start, Len(data)))
    IN  IF start = 0 \/ val = NONE THEN NONE
        ELSE IF IsSome(Get(val, "error"))
        THEN HError(Fmt("server error: {}",
                       JStr(AsStrOr(Idx(Idx(val, "error"), "message"), "unknown error"))))
        ELSE IF IsSome(Get(val, "result"))
        THEN LET info == Idx(Idx(val, "result"), "serverInfo")
             IN  Healthy(AsStrOr(Idx(info, "name"), "unknown"),
                         AsStrOr(Idx(info, "version"), "unknown"))
        ELSE NONE

\* try_parse_response: Some(status) once the output holds a complete response.
try_parse_response(data) ==
    LET start == FindBrace(data)
        val == IF start = 0 THEN NONE ELSE FromStrValue(SubSeq(data, start, Len(data)))
    IN  IF ~ValidUtf8(data) \/ start = 0 \/ val = NONE THEN NONE
        ELSE IF IsSome(Get(val, "result"))
        THEN LET info == Idx(Idx(val, "result"), "serverInfo")
             IN  Healthy(AsStrOr(Idx(info, "name"), "unknown"),
                         AsStrOr(Idx(info, "version"), "unknown"))
        ELSE IF IsSome(Get(val, "error"))
        THEN HError(Fmt("server error: {}",
                       JStr(AsStrOr(Idx(Idx(val, "error"), "message"), "unknown error"))))
        ELSE NONE

\* The messages a child writes.
ResultMsg ==
    JObj(Map1("result",
              JObj(Map1("serverInfo",
                        JObj(Map2("name", JStr("x"), "version", JStr("1.0")))))))
ErrorMsg == JObj(Map1("error", JObj(Map1("message", JStr("boom")))))
Notification == JObj(Map1("method", JStr("notifications/message")))
Msgs == {ResultMsg, ErrorMsg, Notification}

\* What a child writes is two items, each nothing, a header, whitespace, a
\* message or the beginning of one.
Items ==
    {<< >>, << Pre >>, << Ws >>}
        \cup {Text(m) : m \in Msgs}
        \cup {SubSeq(Text(m), 1, k) : m \in Msgs, k \in 1..(MsgParts - 1)}

\* &output[..output.len().min(200)]
PreviewLimit == 200
Preview(data) ==
    TakeBytes(data, IF ByteLen(data) < PreviewLimit THEN ByteLen(data) ELSE PreviewLimit)

\* Lines 119-131: what the reader thread sends at end of file.
EofMessage(data) ==
    LET status == try_parse_response(data)
    IN  IF status # NONE THEN [ok |-> TRUE, v |-> status]
        ELSE IF data = << >>
        THEN [ok |-> FALSE, v |-> Fmt("no response from server", NONE)]
        ELSE [ok |-> FALSE,
              v |-> Fmt("invalid response: {}", Bytes(from_utf8_lossy(Preview(data))))]

\* Transport::is_stdio.
is_stdio(transport) == transport.t = "Stdio"

\* The servers check_server is given that are not stdio servers.
OtherTransports ==
    { Http("https://x", NONE), Http("https://x", SomeMap(Map1("Authorization", "k"))),
      Sse("https://x/sse"), Unknown }

\* The status of a server that is not a stdio server (lines 17 and 37).
Unsupported == HError(Fmt("health check only supports stdio servers", NONE))

HealthResult(index, status, at) ==
    [server_index |-> index, status |-> status, checked_at |-> at]

InitProbe ==
    /\ FilesIdle
    /\ DiscoverIdle
    /\ TransportIdle
    /\ ppc = "idle" /\ child = "none" /\ kills = 0 /\ waits = 0 /\ stdin = "child"
    /\ \/ /\ ptransport = Stdio("command", << >>)
          /\ \E a \in Items, b \in Items : script = a \o b /\ hist = HistOf(a \o b)
          /\ exits \in BOOLEAN
       \/ /\ ptransport \in OtherTransports
          /\ script = << >> /\ hist = HistIdle /\ exits = FALSE
    /\ pout = NONE
    /\ pipe = [data |-> << >>, closed |-> FALSE]
    /\ rpc = "none" /\ output = << >> /\ chan = << >> /\ elapsed = FALSE
    /\ presult = NONE /\ pstatus = NONE
    /\ WriterIdle
    /\ SnapIdle /\ ReadIdle /\ AppIdle
    /\ TripIdle /\ BatchIdle

otherThanProbe ==
    << fileVars, discVars, transVars, writerVars, wfs, callVars, readVars, appVars,
       tripVars, batchVars >>

MutUnsupportedSpawns ==
    /\ ppc = "idle"
    /\ ~is_stdio(ptransport)
    /\ child' = "running"
    /\ ppc' = "write_stdin"
    /\ hist' = [hist EXCEPT !.spawned = TRUE]
    /\ UNCHANGED << kills, waits, stdin, script, exits, pipe, rpc, output, chan,
                    elapsed, presult, pstatus, otherThanProbe >>

\* check_server line 17, spawn_health_check line 37: a transport other than
\* Stdio is an error, and check_stdio is not called.
UnsupportedTransport ==
    /\ ppc = "idle"
    /\ ~is_stdio(ptransport)
    /\ pstatus' = Unsupported
    /\ ppc' = "returned"
    /\ UNCHANGED << child, kills, waits, stdin, script, exits, pipe, rpc, output, chan,
                    elapsed, presult, hist, otherThanProbe >>

\* The status is wrapped in a HealthResult stamped with the time, which
\* check_server returns (lines 19-23) and the thread of spawn_health_check
\* sends on tx (lines 39-43).
Deliver(via) ==
    /\ ppc = "returned"
    /\ pout' = [via |-> via, r |-> HealthResult(0, pstatus, now)]
    /\ ppc' = "done"
    /\ UNCHANGED << child, kills, waits, stdin, script, exits, pipe, rpc, output, chan,
                    elapsed, presult, pstatus, hist, ptransport,
                    fileVars, discVars, transVars, writerVars, wfs, readVars, appVars,
                    tripVars, batchVars >>

CheckServerReturns == Deliver("return")
ThreadSends == Deliver("send")

\* cmd.spawn() gives Ok(child).
SpawnOk ==
    /\ ppc = "idle"
    /\ is_stdio(ptransport)
    /\ child' = "running"
    /\ ppc' = "write_stdin"
    /\ hist' = [hist EXCEPT !.spawned = TRUE]
    /\ UNCHANGED << kills, waits, stdin, script, exits, pipe, rpc, output, chan,
                    elapsed, presult, pstatus, otherThanProbe >>

\* cmd.spawn() gives Err of kind NotFound: check_stdio returns.
SpawnNotFound ==
    /\ ppc = "idle"
    /\ is_stdio(ptransport)
    /\ pstatus' = HError(Fmt("command not found: {}", JStr("command")))
    /\ ppc' = "returned"
    /\ UNCHANGED << child, kills, waits, stdin, script, exits, pipe, rpc, output, chan,
                    elapsed, presult, hist, otherThanProbe >>

\* cmd.spawn() gives another Err: check_stdio returns.
SpawnFails ==
    /\ ppc = "idle"
    /\ is_stdio(ptransport)
    /\ pstatus' = HError(Fmt("Permission denied (os error 13)", NONE))
    /\ ppc' = "returned"
    /\ UNCHANGED << child, kills, waits, stdin, script, exits, pipe, rpc, output, chan,
                    elapsed, presult, hist, otherThanProbe >>

\* The same, the handle going out of scope with the closure that wrote.
MutWriteStdinDrops ==
    /\ ppc = "write_stdin"
    /\ stdin' = "dropped"
    /\ ppc' = "take_stdout"
    /\ UNCHANGED << child, kills, waits, script, exits, pipe, rpc, output, chan,
                    elapsed, presult, pstatus, hist, otherThanProbe >>

\* Lines 75-85: take the stdin handle, write the initialize line, flush, and
\* keep the handle.
WriteStdin ==
    /\ ppc = "write_stdin"
    /\ stdin' = "held"
    /\ ppc' = "take_stdout"
    /\ UNCHANGED << child, kills, waits, script, exits, pipe, rpc, output, chan,
                    elapsed, presult, pstatus, hist, otherThanProbe >>

\* child.stdout.take() is Some: the reader thread starts and recv_timeout
\* begins to wait.
TakeStdout ==
    /\ ppc = "take_stdout"
    /\ rpc' = "reading"
    /\ ppc' = "recv"
    /\ UNCHANGED << child, kills, waits, stdin, script, exits, pipe, output, chan,
                    elapsed, presult, pstatus, hist, otherThanProbe >>

\* The same, returning at once without kill and wait.
MutStdoutMissingReturns ==
    /\ ppc = "take_stdout"
    /\ pstatus' = HError(Fmt("failed to capture stdout", NONE))
    /\ stdin' = "dropped"
    /\ ppc' = "returned"
    /\ UNCHANGED << child, kills, waits, script, exits, pipe, rpc, output, chan,
                    elapsed, presult, hist, otherThanProbe >>

\* child.stdout.take() is None (lines 89-94).
StdoutMissing ==
    /\ ppc = "take_stdout"
    /\ presult' = HError(Fmt("failed to capture stdout", NONE))
    /\ ppc' = "kill_nostdout"
    /\ UNCHANGED << child, kills, waits, stdin, script, exits, pipe, rpc, output, chan,
                    elapsed, pstatus, hist, otherThanProbe >>

\* child.kill(): a running child dies and its end of the pipe closes; on a
\* child that has exited it does nothing.
KillChild ==
    /\ kills' = kills + 1
    /\ IF child = "running"
       THEN child' = "killed" /\ pipe' = [pipe EXCEPT !.closed = TRUE]
       ELSE UNCHANGED << child, pipe >>

\* child.wait(): blocks until the child is dead, and reaps it.
WaitChild ==
    /\ child \in {"exited", "killed"}
    /\ waits' = waits + 1
    /\ child' = "reaped"

\* Line 91.
KillNoStdout ==
    /\ ppc = "kill_nostdout"
    /\ KillChild
    /\ ppc' = "wait_nostdout"
    /\ UNCHANGED << waits, stdin, script, exits, rpc, output, chan, elapsed, presult,
                    pstatus, hist, otherThanProbe >>

\* Lines 92-93: wait, and return; the stdin handle is dropped with the frame.
WaitNoStdout ==
    /\ ppc = "wait_nostdout"
    /\ WaitChild
    /\ pstatus' = presult
    /\ stdin' = "dropped"
    /\ ppc' = "returned"
    /\ UNCHANGED << kills, script, exits, pipe, rpc, output, chan, elapsed, presult,
                    hist, otherThanProbe >>

\* The child writes the next k units of its output.
ChildWrite(k) ==
    /\ child = "running"
    /\ k \in 1..Len(script)
    /\ pipe' = [pipe EXCEPT !.data = @ \o SubSeq(script, 1, k)]
    /\ script' = SubSeq(script, k + 1, Len(script))
    /\ UNCHANGED << ppc, child, kills, waits, stdin, exits, rpc, output, chan, elapsed,
                    presult, pstatus, hist, otherThanProbe >>

\* The child exits by itself, having written everything.
ChildExit ==
    /\ child = "running"
    /\ exits /\ script = << >>
    /\ child' = "exited"
    /\ pipe' = [pipe EXCEPT !.closed = TRUE]
    /\ UNCHANGED << ppc, kills, waits, stdin, script, exits, rpc, output, chan, elapsed,
                    presult, pstatus, hist, otherThanProbe >>

\* read_tx.send(msg)
Send(msg) ==
    /\ chan' = Append(chan, msg)
    /\ rpc' = "done"

\* Reader thread, Ok(n): n units are read; the thread answers when the
\* output parses (lines 105-112).
ReaderRead(n) ==
    /\ rpc = "reading"
    /\ n \in 1..Len(pipe.data)
    /\ output' = output \o SubSeq(pipe.data, 1, n)
    /\ pipe' = [pipe EXCEPT !.data = SubSeq(@, n + 1, Len(@))]
    /\ LET status == try_parse_response(output')
       IN  IF status # NONE
           THEN /\ Send([ok |-> TRUE, v |-> status])
                /\ hist' = [hist EXCEPT !.sentInTime = ~elapsed,
                                        !.readInTime = output' = hist.script0 /\ ~elapsed]
           ELSE /\ UNCHANGED << chan, rpc >>
                /\ hist' = [hist EXCEPT !.partial = TRUE,
                                        !.readInTime = output' = hist.script0 /\ ~elapsed]
    /\ UNCHANGED << ppc, child, kills, waits, stdin, script, exits, elapsed, presult,
                    pstatus, otherThanProbe >>

\* Reader thread, Ok(0): end of file (lines 104 and 119-131).
ReaderEof ==
    /\ rpc = "reading"
    /\ pipe.data = << >> /\ pipe.closed
    /\ Send(EofMessage(output))
    /\ UNCHANGED << ppc, child, kills, waits, stdin, script, exits, pipe, output,
                    elapsed, presult, pstatus, hist, otherThanProbe >>

\* Reader thread, Err(e): the read fails (lines 113-116).
ReaderReadErr ==
    /\ rpc = "reading"
    /\ Send([ok |-> FALSE, v |-> Fmt("Input/output error (os error 5)", NONE)])
    /\ hist' = [hist EXCEPT !.readErr = TRUE]
    /\ UNCHANGED << ppc, child, kills, waits, stdin, script, exits, pipe, output,
                    elapsed, presult, pstatus, otherThanProbe >>

\* TIMEOUT passes while recv_timeout waits.
Tick ==
    /\ ppc = "recv"
    /\ ~elapsed
    /\ elapsed' = TRUE
    /\ UNCHANGED << ppc, child, kills, waits, stdin, script, exits, pipe, rpc, output,
                    chan, presult, pstatus, hist, otherThanProbe >>

\* recv_timeout gives Ok(msg) (lines 135-136).
RecvOk ==
    /\ ppc = "recv"
    /\ chan # << >>
    /\ presult' = IF Head(chan).ok THEN Head(chan).v ELSE HError(Head(chan).v)
    /\ chan' = Tail(chan)
    /\ ppc' = "kill"
    /\ UNCHANGED << child, kills, waits, stdin, script, exits, pipe, rpc, output,
                    elapsed, pstatus, hist, otherThanProbe >>

\* The same, returning at once without kill and wait.
MutTimeoutReturns ==
    /\ ppc = "recv"
    /\ chan = << >> /\ elapsed
    /\ pstatus' = HTimeout
    /\ stdin' = "dropped"
    /\ ppc' = "returned"
    /\ UNCHANGED << child, kills, waits, script, exits, pipe, rpc, output, chan,
                    elapsed, presult, hist, otherThanProbe >>

\* recv_timeout gives Err: nothing was sent within TIMEOUT (line 137).
RecvTimeout ==
    /\ ppc = "recv"
    /\ chan = << >> /\ elapsed
    /\ presult' = HTimeout
    /\ ppc' = "kill"
    /\ UNCHANGED << child, kills, waits, stdin, script, exits, pipe, rpc, output, chan,
                    elapsed, pstatus, hist, otherThanProbe >>

\* Line 140.
Kill ==
    /\ ppc = "kill"
    /\ KillChild
    /\ ppc' = "wait"
    /\ UNCHANGED << waits, stdin, script, exits, rpc, output, chan, elapsed, presult,
                    pstatus, hist, otherThanProbe >>

\* Lines 141-143: wait, and return the result; the stdin handle is dropped
\* with the frame.
Wait ==
    /\ ppc = "wait"
    /\ WaitChild
    /\ pstatus' = presult
    /\ stdin' = "dropped"
    /\ ppc' = "returned"
    /\ UNCHANGED << kills, script, exits, pipe, rpc, output, chan, elapsed, presult,
                    hist, otherThanProbe >>

NextProbe ==
    \/ UnsupportedTransport \/ CheckServerReturns \/ ThreadSends
    \/ SpawnOk \/ SpawnNotFound \/ SpawnFails
    \/ WriteStdin \/ TakeStdout \/ StdoutMissing \/ KillNoStdout \/ WaitNoStdout
    \/ \E k \in 1..(2 * MsgParts) : ChildWrite(k)
    \/ ChildExit
    \/ \E n \in 1..(2 * MsgParts) : ReaderRead(n)
    \/ ReaderEof \/ ReaderReadErr
    \/ Tick \/ RecvOk \/ RecvTimeout \/ Kill \/ Wait

SpecProbe == InitProbe /\ [][NextProbe]_vars

\* The threads of the probe are scheduled and time passes; nothing makes the
\* child write or exit, and nothing makes a read fail.
MainSteps ==
    \/ UnsupportedTransport \/ CheckServerReturns \/ ThreadSends
    \/ SpawnOk \/ SpawnNotFound \/ SpawnFails
    \/ WriteStdin \/ TakeStdout \/ StdoutMissing \/ KillNoStdout \/ WaitNoStdout
    \/ RecvOk \/ RecvTimeout \/ Kill \/ Wait
ReaderSteps == (\E n \in 1..(2 * MsgParts) : ReaderRead(n)) \/ ReaderEof

SpecProbeFair ==
    SpecProbe /\ WF_vars(MainSteps) /\ WF_vars(ReaderSteps) /\ WF_vars(Tick)

Returned == ppc \in {"returned", "done"}

\* C13: a probe of a server that is not a stdio server never has a child
\* process, and its status, returned by check_server or sent by the thread of
\* spawn_health_check, is an Error.
C13_UnsupportedNoSpawn ==
    ~is_stdio(ptransport) =>
        /\ child = "none" /\ ~hist.spawned /\ kills = 0 /\ waits = 0
        /\ Returned => pstatus.t = "Error"
        /\ pout # NONE => pout.r.status = Unsupported

\* C13 witness: the thread of spawn_health_check has sent the error for an
\* http server, and no child was spawned.
C13_Witness ==
    /\ ptransport.t = "Http"
    /\ pout # NONE /\ pout.via = "send" /\ pout.r.status.t = "Error"
    /\ child = "none" /\ ~hist.spawned

\* C2: when the child was spawned and check_stdio has returned, the child was
\* killed once and waited on once and is reaped; at no time is there a second
\* kill or wait, or a wait before the kill.
C2_KillWaitOnce ==
    /\ kills <= 1 /\ waits <= kills
    /\ Returned /\ hist.spawned => kills = 1 /\ waits = 1 /\ child = "reaped"

\* C2 witness: a probe whose stdout was not captured has returned, its child
\* killed and reaped.
C2_Witness ==
    /\ Returned /\ hist.spawned
    /\ rpc = "none"
    /\ pstatus = HError(Fmt("failed to capture stdout", NONE))
    /\ kills = 1 /\ waits = 1 /\ child = "reaped"

\* What a child that never answers writes: nothing, or the beginning of a
\* message.
NoAnswerScripts ==
    {<< >>} \cup {SubSeq(Text(m), 1, k) : m \in Msgs, k \in 1..(MsgParts - 1)}

SilentChild ==
    /\ hist.script0 \in NoAnswerScripts
    /\ ~exits
    /\ ~hist.readErr
    /\ rpc # "none"

\* C3: a probe of a child that stays alive and writes nothing or only the
\* beginning of a message never holds a result other than Timeout, and when
\* it has returned the status is Timeout and the child is reaped.
SilentChildSafe ==
    SilentChild =>
        /\ presult \in {NONE, HTimeout}
        /\ Returned => pstatus = HTimeout /\ child = "reaped"

\* C3: the same child never resolves to Healthy or Error and is reaped when
\* the probe returns, and once the deadline has passed the probe does return
\* Timeout (unless a read fails first).
C3_SilentChildTimesOut ==
    /\ []SilentChildSafe
    /\ (SilentChild /\ elapsed) ~> ((Returned /\ pstatus = HTimeout) \/ hist.readErr)

\* C3 witness: the child wrote the beginning of a message, the reader thread
\* read it without an answer, and the probe returned Timeout.
C3_Witness ==
    /\ SilentChild /\ Returned
    /\ hist.script0 # << >> /\ hist.partial
    /\ output = hist.script0
    /\ pstatus = HTimeout /\ child = "reaped"

\* The child writes one response with a result member, and nothing else.
OneResponse ==
    /\ hist.script0 = Text(ResultMsg)
    /\ ~hist.readErr
    /\ rpc # "none"

\* C4: when the child writes one response with a result member, in any
\* pieces, the probe never holds an Error, and when the reader thread had the
\* whole of it before the deadline the probe returns Healthy with the name
\* and version of result.serverInfo.
C4_SplitResponseHealthy ==
    OneResponse =>
        /\ presult = NONE \/ presult.t # "Error"
        /\ Returned /\ hist.sentInTime => pstatus = Healthy("x", "1.0")

\* C4 witness: the reader thread first read an incomplete prefix of the
\* response, then the rest, and the probe returned Healthy.
C4_Witness ==
    /\ OneResponse /\ Returned
    /\ hist.partial /\ hist.sentInTime
    /\ pstatus = Healthy("x", "1.0")

\* The child writes a notification and then a response with a result member.
NotificationFirst ==
    /\ hist.script0 = Text(Notification) \o Text(ResultMsg)
    /\ ~hist.readErr
    /\ rpc # "none"

\* C15: when the child writes a complete value with neither a result nor an
\* error member and then a response with a result member, and the reader
\* thread has read both before the deadline, the probe returns Healthy with
\* the response's name and version.
C15_LaterResponseHealthy ==
    NotificationFirst /\ hist.readInTime /\ Returned => pstatus = Healthy("x", "1.0")

\* The reader thread read the notification alone, kept reading, and then had
\* the response too, all before the deadline; the probe returned Timeout.
C15_KeptReadingNoAnswer ==
    /\ NotificationFirst /\ hist.readInTime /\ hist.partial /\ Returned
    /\ output = hist.script0
    /\ pstatus = HTimeout

\* C28: the probe closes its end of the child's stdin only when it returns,
\* after the outcome is settled and the child was killed and reaped; from the
\* write of the initialize line to that moment it holds the handle.
C28_StdinKeptOpen ==
    /\ stdin = "dropped" =>
          /\ Returned /\ pstatus # NONE
          /\ kills >= 1 /\ child = "reaped"
    /\ ppc \in {"take_stdout", "recv", "kill", "wait", "kill_nostdout", "wait_nostdout"} =>
          stdin = "held"

\* C28 witness: the wait ran into the deadline with the child still running,
\* the result is Timeout, and the handle is still held before the kill.
C28_Witness ==
    /\ ppc = "kill" /\ presult = HTimeout /\ child = "running"
    /\ elapsed /\ stdin = "held"

(***************************************************************************)
(* The config writer: ClientKind's registry methods and config_writer.rs.  *)
(***************************************************************************)
\* ClientKind::config_path(cwd): the paths it may resolve to.  Global clients
\* are home-relative, project clients cwd-relative; the desktop client's is
\* the first of its candidates that exists, and the platform's own when none
\* does.
config_path(client, dir) ==
    CASE client = "ClaudeCodeGlobal" -> {home(".claude.json")}
      [] client = "ClaudeCodeProject" -> {Join(dir, ".mcp.json")}
      [] client = "CursorGlobal" -> {home(".cursor/mcp.json")}
      [] client = "CursorProject" -> {Join(dir, ".cursor/mcp.json")}
      [] client = "VsCodeProject" -> {Join(dir, ".vscode/mcp.json")}
      [] client = "Windsurf" -> {home(".codeium/windsurf/mcp_config.json")}
      [] client = "ClaudeDesktop" ->
            LET there == {i \in 1..Len(DesktopCandidates) : Exists(fs, DesktopCandidates[i])}
            IN  IF there = {}
                THEN {DesktopCandidates[i] : i \in 1..Len(DesktopCandidates)}
                ELSE {DesktopCandidates[CHOOSE i \in there : \A j \in there : i <= j]}

\* Whether config_path may return None: the home directory is undeterminable.
HomeRelative(client) ==
    client \in {"ClaudeCodeGlobal", "CursorGlobal", "Windsurf", "ClaudeDesktop"}

\* ClientKind::servers_key(): the key under which the client nests its servers.
servers_key(client) == IF client = "VsCodeProject" THEN "servers" ELSE "mcpServers"

\* Path::with_extension(ext): the sibling with the same stem.  Every config
\* path ends in ".json", so (path, ext) names the sibling.
with_extension(path, ext) == << path[1], path[2], ext >>

\* build_server_value leaving the environment out.
MutBuildNoEnv(command, args, env) ==
    LET o1 == Map1("command", JStr(command))
    IN  JObj(IF args # << >>
             THEN MapInsert(o1, "args", JArr([i \in 1..Len(args) |-> JStr(args[i])]))
             ELSE o1)

\* build_server_value: command always, args and env only when not empty.
build_server_value(command, args, env) ==
    LET o1 == Map1("command", JStr(command))
        o2 == IF args # << >>
              THEN MapInsert(o1, "args", JArr([i \in 1..Len(args) |-> JStr(args[i])]))
              ELSE o1
        o3 == IF DOMAIN env # {}
              THEN MapInsert(o2, "env", JObj([k \in DOMAIN env |-> JStr(env[k])]))
              ELSE o2
    IN  JObj(o3)

\* The outcome of a step that panics.
Panic == [t |-> "panic"]

\* IndexMut<&str> for Value, assigned to (v[k] = x): inserts into an object,
\* turns Null into an object, and panics on anything else.
IndexSet(v, k, x) ==
    IF v.t = "obj" THEN JObj(MapInsert(v.m, k, x))
    ELSE IF v.t = "null" THEN JObj(Map1(k, x))
    ELSE Panic

\* root[key][name] = x: root[key] is the member, or a Null inserted for it.
IndexSet2(root, key, name, x) ==
    IF root.t \notin {"obj", "null"} THEN Panic
    ELSE LET inner == IndexSet(Idx(root, key), name, x)
         IN  IF inner = Panic THEN Panic ELSE IndexSet(root, key, inner)

\* v.get_mut(key).and_then(Value::as_object_mut) is Some.
HasObjectAt(v, key) == v.t = "obj" /\ key \in DOMAIN v.m /\ v.m[key].t = "obj"

\* add_server inserting, for the global client, into every per-project map
\* as well (as remove_server removes from them).
MutAddToProjectsToo(client, root, name, value) ==
    LET key == servers_key(client)
        r1 == IF Get(root, key) = NONE
              THEN IndexSet(root, key, JObj(EmptyMap)) ELSE root
        r2 == IF client = "ClaudeCodeProject"
              THEN IF IsSome(Get(root, "mcpServers"))
                   THEN IndexSet2(root, "mcpServers", name, value)
                   ELSE IndexSet(root, name, value)
              ELSE IF r1 = Panic THEN Panic ELSE IndexSet2(r1, key, name, value)
    IN  IF client = "ClaudeCodeGlobal" /\ r2 # Panic /\ HasObjectAt(r2, "projects")
        THEN JObj([r2.m EXCEPT !["projects"] =
                     JObj([p \in DOMAIN r2.m["projects"].m |->
                             IF HasObjectAt(r2.m["projects"].m[p], "mcpServers")
                             THEN IndexSet2(r2.m["projects"].m[p], "mcpServers", name, value)
                             ELSE r2.m["projects"].m[p]])])
        ELSE r2

\* add_server inserting at the top level of the project file whatever form
\* the document has.
MutAddAlwaysFlat(client, root, name, value) ==
    LET key == servers_key(client)
    IN  IF client = "ClaudeCodeProject"
        THEN IndexSet(root, name, value)
        ELSE LET r1 == IF Get(root, key) = NONE
                       THEN IndexSet(root, key, JObj(EmptyMap)) ELSE root
             IN  IF r1 = Panic THEN Panic ELSE IndexSet2(r1, key, name, value)

\* add_server, lines 56-78: root after the insertion, or Panic.
AddMutate(client, root, name, value) ==
    LET key == servers_key(client)
    IN  IF client = "ClaudeCodeProject"
        THEN IF IsSome(Get(root, "mcpServers"))
             THEN IndexSet2(root, "mcpServers", name, value)
             ELSE IndexSet(root, name, value)
        ELSE LET r1 == IF Get(root, key) = NONE
                       THEN IndexSet(root, key, JObj(EmptyMap)) ELSE root
             IN  IF r1 = Panic THEN Panic ELSE IndexSet2(r1, key, name, value)

\* if let Some(obj) = v.get_mut(key).and_then(Value::as_object_mut)
\*     { obj.remove(name); }
RemoveFrom(v, key, name) ==
    IF HasObjectAt(v, key)
    THEN JObj([v.m EXCEPT ![key] = JObj(MapRemove(v.m[key].m, name))])
    ELSE v

\* remove_server leaving the per-project maps alone.
MutRemoveRootOnly(client, root, name) ==
    IF client = "ClaudeCodeProject"
    THEN IF HasObjectAt(root, "mcpServers")
         THEN RemoveFrom(root, "mcpServers", name)
         ELSE IF root.t = "obj" THEN JObj(MapRemove(root.m, name)) ELSE root
    ELSE RemoveFrom(root, servers_key(client), name)

\* remove_server, lines 97-123: root after the removal.
RemoveMutate(client, root, name) ==
    IF client = "ClaudeCodeGlobal"
    THEN LET r1 == RemoveFrom(root, "mcpServers", name)
         IN  IF HasObjectAt(r1, "projects")
             THEN JObj([r1.m EXCEPT !["projects"] =
                          JObj([p \in DOMAIN r1.m["projects"].m |->
                                  RemoveFrom(r1.m["projects"].m[p], "mcpServers", name)])])
             ELSE r1
    ELSE IF client = "ClaudeCodeProject"
    THEN IF HasObjectAt(root, "mcpServers")
         THEN RemoveFrom(root, "mcpServers", name)
         ELSE IF root.t = "obj" THEN JObj(MapRemove(root.m, name)) ELSE root
    ELSE RemoveFrom(root, servers_key(client), name)

\* serde_json::to_string_pretty written to a file: the whole document in the
\* pretty formatting.
Pretty(doc) == FileJson(doc, "pretty")

\* How many pieces a file's text is written in.
WriteChunks == 2

\* A file holding only the first k of the WriteChunks pieces of content c's
\* text (k < WriteChunks): what a write or copy that has not finished leaves.
\* It is readable and does not parse.
FileCut(c, k) == [t |-> "cut", of |-> c, k |-> k]

\* Result<(), String>.
Ok == [t |-> "Ok"]
Err(e) == [t |-> "Err", e |-> e]

(***************************************************************************)
(* Writer inputs: one config file with its siblings, and the calls.        *)
(***************************************************************************)
Siblings(p) == {with_extension(p, "bak"), with_extension(p, "tmp")}
WriterPaths == AllPaths \cup UNION {Siblings(p) : p \in AllPaths}

WriterDocs ==
    { JObj(EmptyMap), Wrapped2("old"), VsBoth("old"), Flat("old"),
      WrappedAndFlat("old"), WrappedNoMap, NullMapAndFlat("old"), JArr(<< >>), JNull,
      GlobalDoc(SomeMap(Map1("alpha", Entry("root"))),
                SomeMap(Map2("alpha", Entry("/p1"), "beta", Entry("/p1"))),
                SomeMap(EmptyMap)) }

WriterContents ==
    {Absent, Garbage} \cup {Compact(d) : d \in WriterDocs} \cup {Pretty(d) : d \in WriterDocs}

\* What an earlier call left in a sibling.
Stale == Compact(Wrapped1("stale"))

WriterFs(p, c, s) ==
    [q \in WriterPaths |-> IF q = p THEN c ELSE IF q \in Siblings(p) THEN s ELSE Absent]

ServerValues ==
    { build_server_value("npx", << >>, EmptyMap),
      build_server_value("node", << "-y", "srv" >>, Map1("KEY", "v")) }

InitWriter ==
    /\ cwd \in Dirs
    /\ \E p \in ScannedPaths(cwd), c \in WriterContents, s \in {Absent, Stale} :
          fs = WriterFs(p, c, s)
    /\ DiscoverIdle
    /\ TransportIdle
    /\ ProbeIdle
    /\ WriterIdle
    /\ wfs = fs
    /\ CallIdle /\ ReadIdle /\ AppIdle
    /\ TripIdle /\ BatchIdle

\* What a call of the writer leaves alone: everything but the files and its
\* own locals; the caller's variables are the caller's to change.
otherThanCall ==
    << cwd, discVars, transVars, probeVars, wfs, callVars, readVars, appVars, tripVars >>

otherThanWriter == << otherThanCall, batchVars >>

\* The call returns r.
WriterReturns(r) == wpc' = "done" /\ wret' = r

\* path.display() as a format argument.
Display(p) == [t |-> "path", p |-> p]

\* add_server / remove_server, lines 39-41 and 89-91: config_path resolves.
Resolved(op, client, name, value) ==
    /\ wpc = "idle"
    /\ \E p \in config_path(client, cwd) :
          /\ wpath' = p
          /\ wpre' = fs[p]
    /\ wop' = [op |-> op, client |-> client, name |-> name, value |-> value]
    /\ wpc' = IF op = "add" THEN "mkdir" ELSE "read"
    /\ UNCHANGED << fs, wroot, wret, wnew, otherThanCall >>

\* The call made on its own.
Resolve(op, client, name, value) ==
    Resolved(op, client, name, value) /\ UNCHANGED batchVars

AddStart(client, name, value) == Resolve("add", client, name, value)
RemoveStart(client, name) == Resolve("remove", client, name, NONE)

\* config_path returns None (no home directory).
Unresolved(op, client, name) ==
    /\ wpc = "idle"
    /\ HomeRelative(client)
    /\ wop' = [op |-> op, client |-> client, name |-> name, value |-> NONE]
    /\ WriterReturns(Err(Fmt("could not determine config path", NONE)))
    /\ UNCHANGED << fs, wpath, wroot, wpre, wnew, otherThanCall >>

ResolveFails(op, client, name) == Unresolved(op, client, name) /\ UNCHANGED batchVars

\* add_server, lines 44-47: create_dir_all on the parent.
CreateDirs ==
    /\ wpc = "mkdir"
    /\ wpc' = "read"
    /\ UNCHANGED << fs, wop, wpath, wroot, wret, wpre, wnew, otherThanWriter >>

CreateDirsFails ==
    /\ wpc = "mkdir"
    /\ WriterReturns(Err(Fmt("failed to create directory {}: {}", Display(wpath))))
    /\ UNCHANGED << fs, wop, wpath, wroot, wpre, wnew, otherThanWriter >>

\* read_or_empty starting afresh from {} when the text does not parse.
MutReadBadAsEmpty ==
    /\ wpc = "read"
    /\ wroot' = IF FromStrOk(fs[wpath]) THEN fs[wpath].doc ELSE JObj(EmptyMap)
    /\ wpc' = "backup"
    /\ UNCHANGED << fs, wop, wpath, wret, wpre, wnew, otherThanWriter >>

\* read_or_empty: the parsed document, {} for a missing file, Err for text
\* that does not parse.
ReadOrEmpty ==
    /\ wpc = "read"
    /\ LET c == fs[wpath]
       IN  IF ~ReadOk(c)
           THEN wroot' = JObj(EmptyMap) /\ wpc' = "backup" /\ wret' = wret
           ELSE IF FromStrOk(c)
           THEN wroot' = c.doc /\ wpc' = "backup" /\ wret' = wret
           ELSE /\ wroot' = wroot
                /\ WriterReturns(Err(Fmt("invalid JSON in {}: {}", Display(wpath))))
    /\ UNCHANGED << fs, wop, wpath, wpre, wnew, otherThanWriter >>

\* read_or_empty, line 134: the file is there and cannot be read.
ReadFails ==
    /\ wpc = "read"
    /\ Exists(fs, wpath)
    /\ WriterReturns(Err(Fmt("failed to read {}: {}", Display(wpath))))
    /\ UNCHANGED << fs, wop, wpath, wroot, wpre, wnew, otherThanWriter >>

\* backup keeping a .bak sibling that is already there.
MutBackupKeepsOld ==
    /\ wpc = "backup"
    /\ fs' = IF Exists(fs, wpath) /\ ~Exists(fs, with_extension(wpath, "bak"))
             THEN [fs EXCEPT ![with_extension(wpath, "bak")] = fs[wpath]]
             ELSE fs
    /\ wpc' = "mutate"
    /\ UNCHANGED << wop, wpath, wroot, wret, wpre, wnew, otherThanWriter >>

\* backup: copies an existing destination to its .bak sibling.
Backup ==
    /\ wpc = "backup"
    /\ fs' = IF Exists(fs, wpath)
             THEN [fs EXCEPT ![with_extension(wpath, "bak")] = fs[wpath]]
             ELSE fs
    /\ wpc' = "mutate"
    /\ UNCHANGED << wop, wpath, wroot, wret, wpre, wnew, otherThanWriter >>

\* A backup failure that is noticed only after the .tmp sibling was written.
MutBackupFailsLate ==
    /\ wpc = "backup"
    /\ Exists(fs, wpath)
    /\ fs' = [fs EXCEPT ![with_extension(wpath, "tmp")] = Pretty(wroot)]
    /\ WriterReturns(Err(Fmt("failed to create backup {}: {}",
                             Display(with_extension(wpath, "bak")))))
    /\ UNCHANGED << wop, wpath, wroot, wpre, wnew, otherThanWriter >>

\* backup, lines 141-142: the copy fails, before or after it wrote a part.
BackupFails ==
    /\ wpc = "backup"
    /\ Exists(fs, wpath)
    /\ \/ fs' = fs
       \/ \E k \in 0..(WriteChunks - 1) :
             fs' = [fs EXCEPT ![with_extension(wpath, "bak")] = FileCut(fs[wpath], k)]
    /\ WriterReturns(Err(Fmt("failed to create backup {}: {}",
                             Display(with_extension(wpath, "bak")))))
    /\ UNCHANGED << wop, wpath, wroot, wpre, wnew, otherThanWriter >>

\* add_server lines 56-78, remove_server lines 97-123: the structural rule.
Mutate ==
    /\ wpc = "mutate"
    /\ LET m == IF wop.op = "add"
                THEN AddMutate(wop.client, wroot, wop.name, wop.value)
                ELSE RemoveMutate(wop.client, wroot, wop.name)
       IN  IF m = Panic
           THEN wpc' = "panicked" /\ wroot' = wroot /\ wnew' = wnew
           ELSE wpc' = "write" /\ wroot' = m /\ wnew' = m
    /\ UNCHANGED << fs, wop, wpath, wret, wpre, otherThanWriter >>

\* write_atomic, line 152: std::fs::write creates or truncates the .tmp
\* sibling ...
CreateTmp ==
    /\ wpc = "write"
    /\ fs' = [fs EXCEPT ![with_extension(wpath, "tmp")] = FileCut(Pretty(wroot), 0)]
    /\ wpc' = "writing"
    /\ UNCHANGED << wop, wpath, wroot, wret, wpre, wnew, otherThanWriter >>

\* ... and writes the text piece by piece; after the last piece the call
\* goes on to the rename.
WriteTmp ==
    /\ wpc = "writing"
    /\ LET tmp == with_extension(wpath, "tmp")
           k == fs[tmp].k + 1
       IN  IF k < WriteChunks
           THEN fs' = [fs EXCEPT ![tmp] = FileCut(Pretty(wroot), k)] /\ wpc' = "writing"
           ELSE fs' = [fs EXCEPT ![tmp] = Pretty(wroot)] /\ wpc' = "rename"
    /\ UNCHANGED << wop, wpath, wroot, wret, wpre, wnew, otherThanWriter >>

\* write_atomic, lines 152-153: creating or writing the .tmp sibling fails;
\* what was written stays.
WriteTmpFails ==
    /\ wpc \in {"write", "writing"}
    /\ WriterReturns(Err(Fmt("failed to write {}: {}",
                             Display(with_extension(wpath, "tmp")))))
    /\ UNCHANGED << fs, wop, wpath, wroot, wpre, wnew, otherThanWriter >>

\* Replacing the destination by copying the .tmp sibling over it, piece by
\* piece, instead of renaming.
MutRenameByCopy ==
    /\ wpc = "rename"
    /\ LET tmp == with_extension(wpath, "tmp")
       IN  \/ /\ \E k \in 0..(WriteChunks - 1) :
                    fs' = [fs EXCEPT ![wpath] = FileCut(fs[tmp], k)]
              /\ wpc' = "rename" /\ wret' = wret
           \/ /\ fs' = [fs EXCEPT ![wpath] = fs[tmp], ![tmp] = Absent]
              /\ WriterReturns(Ok)
    /\ UNCHANGED << wop, wpath, wroot, wpre, wnew, otherThanWriter >>

\* write_atomic, line 155: std::fs::rename replaces the destination by the
\* .tmp sibling in one step.
Rename ==
    /\ wpc = "rename"
    /\ LET tmp == with_extension(wpath, "tmp")
       IN  fs' = [fs EXCEPT ![wpath] = fs[tmp], ![tmp] = Absent]
    /\ WriterReturns(Ok)
    /\ UNCHANGED << wop, wpath, wroot, wpre, wnew, otherThanWriter >>

\* write_atomic, lines 155-156: the rename fails and changes nothing.
RenameFails ==
    /\ wpc = "rename"
    /\ WriterReturns(Err(Fmt("failed to rename {} to {}: {}", Display(wpath))))
    /\ UNCHANGED << fs, wop, wpath, wroot, wpre, wnew, otherThanWriter >>

\* The process stops in the middle of a call.
Crash ==
    /\ wpc \in {"mkdir", "read", "backup", "mutate", "write", "writing", "rename"}
    /\ wpc' = "crashed"
    /\ UNCHANGED << fs, wop, wpath, wroot, wret, wpre, wnew, otherThanWriter >>

NextWriter ==
    \/ \E client \in Kinds, name \in Names, value \in ServerValues :
          AddStart(client, name, value)
    \/ \E client \in Kinds, name \in Names : RemoveStart(client, name)
    \/ \E op \in {"add", "remove"}, client \in Kinds, name \in Names :
          ResolveFails(op, client, name)
    \/ CreateDirs \/ CreateDirsFails
    \/ ReadOrEmpty \/ ReadFails
    \/ Backup \/ BackupFails
    \/ Mutate
    \/ CreateTmp \/ WriteTmp \/ WriteTmpFails
    \/ Rename \/ RenameFails
    \/ Crash

SpecWriter == InitWriter /\ [][NextWriter]_vars

\* C1: from the moment add_server / remove_server is called, whatever step it
\* has reached and however it ended (returned Ok or Err, stopped, panicked),
\* the destination holds its content from before the call or the whole
\* updated document in the writer's formatting; it holds the latter only
\* once the rename has happened.
C1_DestinationAtomic ==
    wpath # NONE =>
        /\ \/ fs[wpath] = wpre
           \/ wnew # NONE /\ fs[wpath] = Pretty(wnew)
        /\ (wpc # "done" \/ wret # Ok) => fs[wpath] = wpre

\* C1 witnesses: a call stopped between the complete .tmp write and the
\* rename, with the destination as before the call; and a completed call
\* that changed the destination.
C1_Witness ==
    /\ wpc = "crashed" /\ wnew # NONE
    /\ fs[with_extension(wpath, "tmp")] = Pretty(wnew)
    /\ Exists(fs, wpath) /\ fs[wpath] = wpre /\ wpre # Pretty(wnew)

WBak == with_extension(wpath, "bak")
WTmp == with_extension(wpath, "tmp")
WriterOk == wpc = "done" /\ wret = Ok
WriterErr == wpc = "done" /\ wret.t = "Err"

\* C17: when the destination exists and does not parse, the call never gets
\* past reading it, every file is as it was at every step, and what the call
\* returns is an Err.
C17_InvalidJsonNoWrite ==
    wpath # NONE /\ Exists(wfs, wpath) /\ ~FromStrOk(wfs[wpath]) =>
        /\ fs = wfs
        /\ wpc \in {"mkdir", "read", "done", "crashed"}
        /\ wpc = "done" => wret.t = "Err"

\* C17 witness: add_server returned the error for an invalid destination
\* whose siblings were there, and nothing changed.
C17_Witness ==
    /\ wpath # NONE /\ wop.op = "add"
    /\ wfs[wpath] = Garbage /\ wfs[WBak] = Stale /\ wfs[WTmp] = Stale
    /\ wpc = "done" /\ wret = Err(Fmt("invalid JSON in {}: {}", Display(wpath)))
    /\ fs = wfs

\* C18: when the destination existed, the .bak sibling holds its pre-call
\* content from before the .tmp sibling is written and the destination
\* replaced, and so after a call that succeeded; when the destination
\* did not exist the .bak sibling is never touched.
C18_BackupFirst ==
    wpath # NONE =>
        IF Exists(wfs, wpath)
        THEN /\ WriterOk => fs[WBak] = wfs[wpath]
             /\ (wpc \in {"writing", "rename"} \/ fs[WTmp] # wfs[WTmp]
                    \/ fs[wpath] # wfs[wpath]) => fs[WBak] = wfs[wpath]
        ELSE fs[WBak] = wfs[WBak]

\* C18 witness: a call succeeded on a destination that existed, beside a
\* stale backup; the backup now holds the destination's old content.
C18_Witness ==
    /\ wpath # NONE /\ WriterOk
    /\ Exists(wfs, wpath) /\ wfs[WBak] = Stale
    /\ fs[WBak] = wfs[wpath] /\ fs[wpath] # wfs[wpath]

BackupFailed ==
    WriterErr /\ wret.e.text = "failed to create backup {}: {}"

\* C19: when the copy to the backup path fails the call returns Err (it does
\* not go on), the destination holds its pre-call content, and the .tmp
\* sibling was not written.
C19_BackupFailureAborts ==
    /\ BackupFailed =>
          /\ fs[wpath] = wfs[wpath]
          /\ fs[WTmp] = wfs[WTmp]
          /\ wnew = NONE
    /\ (wpath # NONE /\ fs[WBak].t = "cut") =>
          /\ BackupFailed
          /\ fs[wpath] = wfs[wpath] /\ fs[WTmp] = wfs[WTmp]

\* C19 witness: the copy failed after writing a part of the backup, and
\* remove_server returned the error.
C19_Witness ==
    /\ BackupFailed /\ wop.op = "remove"
    /\ fs[WBak].t = "cut"
    /\ fs[wpath] = wfs[wpath] /\ fs[WTmp] = Absent

\* The mcpServers map of v when v has one, else NONE.
ServerMap(v) == IF HasObjectAt(v, "mcpServers") THEN SomeMap(v.m["mcpServers"].m) ELSE NONE

\* Map new is map old without name, every other entry as it was.
IsWithout(new, old, name) ==
    /\ new.t = old.t
    /\ old.t = "some" =>
          /\ DOMAIN new.m = DOMAIN old.m \ {name}
          /\ \A k \in DOMAIN new.m : new.m[k] = old.m[k]

GlobalRemoved ==
    /\ WriterOk /\ wop.op = "remove" /\ wop.client = "ClaudeCodeGlobal"
    /\ FromStrOk(wfs[wpath])

\* C20: after remove_server succeeded for the global client, the root-level
\* mcpServers map and the mcpServers map of every entry under projects are
\* the maps from before the call without the name.
C20_GlobalRemoveEverywhere ==
    GlobalRemoved =>
        LET old == wfs[wpath].doc
            new == fs[wpath].doc
        IN  /\ fs[wpath].t = "json"
            /\ IsWithout(ServerMap(new), ServerMap(old), wop.name)
            /\ HasObjectAt(old, "projects") =>
                  /\ HasObjectAt(new, "projects")
                  /\ DOMAIN new.m["projects"].m = DOMAIN old.m["projects"].m
                  /\ \A p \in DOMAIN old.m["projects"].m :
                        IsWithout(ServerMap(new.m["projects"].m[p]),
                                  ServerMap(old.m["projects"].m[p]), wop.name)

\* C20 witness: alpha was removed from the root map and from a project map
\* that keeps its other entry.
C20_Witness ==
    /\ GlobalRemoved /\ wop.name = "alpha"
    /\ HasObjectAt(wfs[wpath].doc, "mcpServers")
    /\ "alpha" \in DOMAIN wfs[wpath].doc.m["mcpServers"].m
    /\ HasObjectAt(wfs[wpath].doc, "projects")
    /\ "/p1" \in DOMAIN wfs[wpath].doc.m["projects"].m
    /\ HasObjectAt(wfs[wpath].doc.m["projects"].m["/p1"], "mcpServers")
    /\ "alpha" \in DOMAIN wfs[wpath].doc.m["projects"].m["/p1"].m["mcpServers"].m
    /\ DOMAIN fs[wpath].doc.m["projects"].m["/p1"].m["mcpServers"].m = {"beta"}
    /\ DOMAIN fs[wpath].doc.m["mcpServers"].m = {}

\* The document the call read: the destination's, or {} for no file.
OldDoc == IF ReadOk(wfs[wpath]) THEN wfs[wpath].doc ELSE JObj(EmptyMap)

\* The members of v when it is an object, none otherwise.
Members(v) == IF v.t = "obj" THEN v.m ELSE EmptyMap

\* Map new is map old with name set to value, every other entry as it was.
IsWith(new, old, name, value) ==
    /\ DOMAIN new = DOMAIN old \cup {name}
    /\ new[name] = value
    /\ \A k \in DOMAIN old \ {name} : new[k] = old[k]

GlobalAdded ==
    /\ WriterOk /\ wop.op = "add" /\ wop.client = "ClaudeCodeGlobal"

\* C21: after add_server succeeded for the global client, the document is
\* the one from before the call with the root-level mcpServers map holding
\* the value under the name: every other entry of that map, every other
\* top-level key and with it every projects.<path>.mcpServers map is as it
\* was.
C21_GlobalAddRootOnly ==
    GlobalAdded =>
        LET old == Members(OldDoc)
            new == fs[wpath].doc
        IN  /\ fs[wpath].t = "json" /\ new.t = "obj"
            /\ DOMAIN new.m = DOMAIN old \cup {"mcpServers"}
            /\ \A k \in DOMAIN old \ {"mcpServers"} : new.m[k] = old[k]
            /\ new.m["mcpServers"].t = "obj"
            /\ IsWith(new.m["mcpServers"].m, Members(Idx(OldDoc, "mcpServers")),
                      wop.name, wop.value)

\* C21 witness: alpha was replaced in the root map of a document whose
\* project map has an alpha of its own, which is still the old one.
C21_Witness ==
    /\ GlobalAdded /\ wop.name = "alpha"
    /\ HasObjectAt(OldDoc, "mcpServers") /\ HasObjectAt(OldDoc, "projects")
    /\ "alpha" \in DOMAIN OldDoc.m["mcpServers"].m
    /\ OldDoc.m["mcpServers"].m["alpha"] # wop.value
    /\ fs[wpath].doc.m["mcpServers"].m["alpha"] = wop.value
    /\ "/p1" \in DOMAIN OldDoc.m["projects"].m
    /\ fs[wpath].doc.m["projects"].m["/p1"].m["mcpServers"].m["alpha"] = Entry("/p1")

\* What following a form means for each operation on the project-flat
\* client's document root: a is the document add_server makes of it, r the
\* one remove_server makes of it.
AddFollows(form, root, a, name, value) ==
    /\ a # Panic /\ a.t = "obj"
    /\ IF form = "nested"
       THEN /\ DOMAIN a.m = DOMAIN Members(root) \cup {"mcpServers"}
            /\ \A k \in DOMAIN Members(root) \ {"mcpServers"} : a.m[k] = root.m[k]
            /\ a.m["mcpServers"].t = "obj"
            /\ IsWith(a.m["mcpServers"].m, Members(Idx(root, "mcpServers")), name, value)
       ELSE IsWith(a.m, Members(root), name, value)

RemoveFollows(form, root, r, name) ==
    IF form = "nested"
    THEN /\ r.t = root.t /\ DOMAIN Members(r) = DOMAIN Members(root)
         /\ \A k \in DOMAIN Members(root) \ {"mcpServers"} : r.m[k] = root.m[k]
         /\ IsWithout(ServerMap(r), ServerMap(root), name)
    ELSE /\ r.t = root.t
         /\ DOMAIN Members(r) = DOMAIN Members(root) \ {name}
         /\ \A k \in DOMAIN Members(r) : r.m[k] = root.m[k]

\* C22: for the project-flat client, whatever document the call has read,
\* there is one form, nested or flat, that both add_server and remove_server
\* follow on it.
C22_SameFormBothWays ==
    (wpc = "mutate" /\ wop.client = "ClaudeCodeProject") =>
        \E form \in {"nested", "flat"} :
            \A value \in ServerValues :
                /\ AddFollows(form, wroot, AddMutate(wop.client, wroot, wop.name, value),
                              wop.name, value)
                /\ RemoveFollows(form, wroot, RemoveMutate(wop.client, wroot, wop.name),
                                 wop.name)

\* Where the operations agree: a document with an mcpServers map and one
\* with none.
C22_AgreeOnPlainForms ==
    (wpc = "mutate" /\ wop.client = "ClaudeCodeProject"
        /\ wroot.t = "obj" /\ wroot \notin {WrappedNoMap, NullMapAndFlat("old")}) =>
        C22_SameFormBothWays

\* C26: add_server and remove_server never panic.
C26_NeverPanics == wpc # "panicked"

(***************************************************************************)
(* The writer against discovery: what discover(cwd) returns over the files *)
(* before the call and over the files the call left.                       *)
(***************************************************************************)
\* The records of a discovery for a client and a name.
Records(res, client, name) ==
    {res.servers[i] : i \in {j \in 1..Len(res.servers) :
        res.servers[j].client = client /\ res.servers[j].name = name}}

DiscoveredBefore == discover(cwd, wfs)
DiscoveredAfter == discover(cwd, fs)

\* The command and the args a value of build_server_value holds.
CommandOf(value) == value.m["command"].s
ArgsOf(value) ==
    IF "args" \in DOMAIN value.m
    THEN [i \in 1..Len(value.m["args"].a) |-> value.m["args"].a[i].s]
    ELSE << >>

AddedOk == WriterOk /\ wop.op = "add"
RemovedOk == WriterOk /\ wop.op = "remove"

C31_WitnessIde ==
    /\ AddedOk /\ wop.client = "VsCodeProject"
    /\ wpre = Compact(Wrapped2("old")) /\ ArgsOf(wop.value) # << >>
    /\ Records(DiscoveredAfter, "VsCodeProject", wop.name) # {}

\* C32: after remove_server returned Ok, discover returns no record with the
\* client and the name.
C32_RemovedIsGone ==
    RemovedOk => Records(DiscoveredAfter, wop.client, wop.name) = {}

\* The IDE-style file held the server under the fallback key only: the
\* remove returned Ok and the record is still discovered.
C32_StillDiscovered ==
    /\ RemovedOk /\ wop.client = "VsCodeProject" /\ wop.name = "alpha"
    /\ wpre = Compact(Wrapped2("old"))
    /\ Records(DiscoveredAfter, "VsCodeProject", "alpha") # {}

\* For every client but the IDE-style one C32 holds.
C32_GoneButIde ==
    RemovedOk /\ wop.client # "VsCodeProject" =>
        Records(DiscoveredAfter, wop.client, wop.name) = {}

\* Every record of res1 under another name than the call's is a record of
\* res2, with the same client, name and transport.
Kept(res1, res2, name) ==
    \A i \in 1..Len(res1.servers) :
        res1.servers[i].name # name =>
            \E r \in Records(res2, res1.servers[i].client, res1.servers[i].name) :
                r.transport = res1.servers[i].transport

\* C33: after add_server returned Ok, every record discovered before the
\* call under another name is still discovered, with the same transport.
C33_AddKeepsOthers ==
    AddedOk => Kept(DiscoveredBefore, DiscoveredAfter, wop.name)

\* The IDE-style file held alpha and beta under the fallback key; after the
\* add of alpha, which made a servers map, beta is discovered no more.
C33_FallbackHidden ==
    /\ AddedOk /\ wop.client = "VsCodeProject" /\ wop.name = "alpha"
    /\ wpre = Compact(Wrapped2("old"))
    /\ Records(DiscoveredBefore, "VsCodeProject", "beta") # {}
    /\ Records(DiscoveredAfter, "VsCodeProject", "beta") = {}

\* The project file held a null mcpServers beside a top-level alpha; after
\* the add of beta, which made mcpServers a map, alpha is discovered no more.
C33_FlatHidden ==
    /\ AddedOk /\ wop.client = "ClaudeCodeProject" /\ wop.name = "beta"
    /\ wpre = Compact(NullMapAndFlat("old"))
    /\ Records(DiscoveredBefore, "ClaudeCodeProject", "alpha") # {}
    /\ Records(DiscoveredAfter, "ClaudeCodeProject", "alpha") = {}

\* Document new is document old but for members called name: every other
\* member of old is in new and is old's but for members called name, and a
\* member new has beyond old's holds nothing but a member called name (the
\* servers map made for the entry).  A null that became a map counts as a
\* map that was empty.
RECURSIVE SameBut(_, _, _)
SameBut(old, new, name) ==
    \/ old = new
    \/ /\ old.t \in {"obj", "null"} /\ new.t = "obj"
       /\ LET o == Members(old)
          IN  /\ DOMAIN o \ {name} \subseteq DOMAIN new.m
              /\ \A k \in DOMAIN new.m \ {name} :
                    IF k \in DOMAIN o
                    THEN SameBut(o[k], new.m[k], name)
                    ELSE new.m[k].t = "obj" /\ DOMAIN new.m[k].m \subseteq {name}

\* C34: after add_server or remove_server returned Ok, the destination holds
\* the document it held (the empty one if there was no file) but for entries
\* with the call's name, and every file other than the destination and its
\* .bak and .tmp siblings is as it was.
C34_OnlyTheEntry ==
    WriterOk =>
        /\ fs[wpath] = Pretty(wnew)
        /\ SameBut(OldDoc, wnew, wop.name)
        /\ \A q \in DOMAIN fs : q \notin {wpath} \cup Siblings(wpath) => fs[q] = wfs[q]

\* C34 witnesses: a remove from a wrapped document with a second server and
\* an unrelated key, which are both kept; an add for a client whose file is
\* not there while another client's file is.
C34_Witness ==
    /\ RemovedOk /\ wop.name = "alpha" /\ OldDoc = Wrapped2("old")
    /\ wop.client = "CursorProject"
    /\ wnew.m["theme"] = JStr("dark")
    /\ DOMAIN wnew.m["mcpServers"].m = {"beta"}

C34_WitnessOtherFile ==
    /\ AddedOk /\ ~Exists(wfs, wpath)
    /\ \E q \in AllPaths \ {wpath} : Exists(wfs, q) /\ fs[q] = wfs[q]

(***************************************************************************)
(* The same call made twice in a row, each time returning Ok.              *)
(***************************************************************************)
\* add_server / remove_server along the path on which it returns Ok: the
\* path resolves, the file is missing or parses, the backup is taken, the
\* structural rule does not panic, the .tmp sibling is written and renamed
\* over the destination.  (The steps, one by one and with their failures,
\* are the actions of the writer above.)
CallReturnsOk(op, client, name, value, nth) ==
    \E p \in config_path(client, cwd) :
        LET c == fs[p]
            root == IF ReadOk(c) THEN c.doc ELSE JObj(EmptyMap)
            m == IF op = "add" THEN AddMutate(client, root, name, value)
                 ELSE RemoveMutate(client, root, name)
        IN  /\ ~ReadOk(c) \/ FromStrOk(c)
            /\ m # Panic
            /\ fs' = [fs EXCEPT ![p] = Pretty(m),
                                ![with_extension(p, "bak")] = IF Exists(fs, p) THEN c ELSE @,
                                ![with_extension(p, "tmp")] = Absent]
            /\ wop' = [op |-> op, client |-> client, name |-> name, value |-> value]
            /\ wpath' = p /\ wpre' = c /\ wroot' = root /\ wnew' = m
            /\ wret' = Ok /\ wpc' = nth
            /\ UNCHANGED otherThanWriter

FirstCall(op, client, name, value) ==
    /\ wpc = "idle"
    /\ CallReturnsOk(op, client, name, value, "once")

SecondCall ==
    /\ wpc = "once"
    /\ CallReturnsOk(wop.op, wop.client, wop.name, wop.value, "twice")

NextTwice ==
    \/ \E client \in Kinds, name \in Names, value \in ServerValues :
          FirstCall("add", client, name, value)
    \/ \E client \in Kinds, name \in Names : FirstCall("remove", client, name, NONE)
    \/ SecondCall

SpecTwice == InitWriter /\ [][NextTwice]_vars

\* Whether a document has a member called name, at any depth.
RECURSIVE HasMember(_, _)
HasMember(v, name) ==
    /\ v.t = "obj"
    /\ \/ name \in DOMAIN v.m
       \/ \E k \in DOMAIN v.m : HasMember(v.m[k], name)

C39_WitnessRemove ==
    /\ wpc = "twice" /\ wop.op = "remove" /\ wop.client = "ClaudeCodeGlobal"
    /\ wop.name = "alpha" /\ wfs[wpath].t = "json"
    /\ HasObjectAt(wfs[wpath].doc, "projects")
    /\ HasMember(wfs[wpath].doc, "alpha") /\ ~HasMember(wnew, "alpha")

C39_WitnessNotThere ==
    /\ wpc = "once" /\ wop.op = "remove" /\ wop.name = "beta"
    /\ wroot = Flat("old") /\ wnew = wroot

(***************************************************************************)
(* The round trip: build_server_value, then the discovery parser.          *)
(***************************************************************************)
\* The longest argument list.
MaxArgs == 2

Commands == {"", "npx"}
ArgWords == {"", "-y"}
ArgLists == UNION {[1..n -> ArgWords] : n \in 0..MaxArgs}
EnvMaps == UNION {[S -> {"", "v"}] : S \in SUBSET {"KEY", "PATH"}}

\* Option<HashMap>::unwrap_or_default.
unwrap_or_default(o) == IF o = NONE THEN EmptyMap ELSE o.m

\* App::server_to_value: the value of a record, from its transport and env.
server_to_value(server) ==
    IF server.transport.t = "Stdio"
    THEN build_server_value(server.transport.command, server.transport.args,
                            unwrap_or_default(server.env))
    ELSE JObj(EmptyMap)

InitRoundTrip ==
    /\ rtin \in [command : Commands, args : ArgLists, env : EnvMaps]
    /\ rtval = NONE /\ rtout = NONE
    /\ FilesIdle
    /\ DiscoverIdle
    /\ TransportIdle
    /\ ProbeIdle
    /\ WriterIdle
    /\ SnapIdle /\ CallIdle /\ ReadIdle /\ AppIdle /\ BatchIdle

otherThanTrip ==
    << fileVars, discVars, transVars, probeVars, writerVars, wfs, callVars, readVars,
       appVars, batchVars >>

\* build_server_value(command, args, env).
Build ==
    /\ rtval = NONE
    /\ rtval' = build_server_value(rtin.command, rtin.args, rtin.env)
    /\ UNCHANGED << rtin, rtout, otherThanTrip >>

\* The value, as the member "alpha" of a client's server map, goes through
\* parse_server_map (parse_transport for the transport, parse_string_map for
\* the env).
Decode ==
    /\ rtval # NONE /\ rtout = NONE
    /\ rtout' = parse_server_map(Map1("alpha", rtval), "ClaudeCodeProject",
                                 Join("proj", ".mcp.json"))[1]
    /\ UNCHANGED << rtin, rtval, otherThanTrip >>

NextRoundTrip == Build \/ Decode

SpecRoundTrip == InitRoundTrip /\ [][NextRoundTrip]_vars

\* C25: the record decoded from the built value is a Stdio record with the
\* original command and args; its environment, read as the application reads
\* it (no map is the empty environment), is the original env, the map being
\* there exactly when the original env is not empty; and the value built
\* back from the record is the value it was decoded from.
C25_BuildDecodeRoundTrip ==
    rtout # NONE =>
        /\ rtout.transport = Stdio(rtin.command, rtin.args)
        /\ unwrap_or_default(rtout.env) = rtin.env
        /\ (rtout.env = NONE) <=> (rtin.env = EmptyMap)
        /\ server_to_value(rtout) = rtval

\* C25 witnesses: the round trip of a triple with nothing empty, and of one
\* with an empty command, no arguments and no environment.
C25_Witness ==
    /\ rtout # NONE
    /\ Len(rtin.args) = MaxArgs /\ DOMAIN rtin.env = {"KEY", "PATH"}
    /\ rtin.command = "npx"
    /\ rtout.transport.args = rtin.args /\ rtout.env = SomeMap(rtin.env)

C25_WitnessEmpty ==
    /\ rtout # NONE
    /\ rtin = [command |-> "", args |-> << >>, env |-> EmptyMap]
    /\ rtout.transport = Stdio("", << >>) /\ rtout.env = NONE

(***************************************************************************)
(* app.rs: the server list on display and its health checks.               *)
(***************************************************************************)
\* How many health checks one run of the application launches.
MaxLaunches == 2

Unchecked == [t |-> "Unchecked"]
Checking == [t |-> "Checking"]

\* Option::Some(x).
SomeOf(x) == [t |-> "some", v |-> x]

\* What the thread of spawn_health_check resolves to: check_stdio's status
\* for a stdio server, an error for any other transport.
StdioOutcomes ==
    {Healthy("x", "1.0"), HTimeout, HError(Fmt("no response from server", NONE))}
ThreadOutcomes(transport) ==
    IF is_stdio(transport) THEN StdioOutcomes ELSE {Unsupported}

\* The file systems the application runs over: nothing; a stdio and a remote
\* project server; a global stdio server before the project's stdio server.
AppFiles ==
    LET mcp == Join("proj", ".mcp.json")
    IN  { NoFiles,
          [NoFiles EXCEPT ![mcp] = Compact(Wrapped2("proj"))],
          [NoFiles EXCEPT ![mcp] = Compact(Wrapped1("proj")),
                          ![home(".claude.json")] =
                              Compact(JObj(Map1("mcpServers",
                                                JObj(Map1("beta", Entry("root"))))))] }

\* discover(cwd) over each of these file systems.
Discovered == [f \in AppFiles |-> discover("proj", f)]

\* App::new: the first discovery, nothing selected or in flight.
InitApp ==
    /\ cwd = "proj"
    /\ fs \in AppFiles
    /\ aresult = Discovered[fs]
    /\ selected = 0 /\ checking_count = 0
    /\ threads = << >> /\ health_rx = << >> /\ now = 0 /\ ahist = AHistIdle
    /\ DiscoverIdle
    /\ TransportIdle
    /\ ProbeIdle
    /\ WriterIdle
    /\ SnapIdle /\ CallIdle /\ ReadIdle
    /\ TripIdle /\ BatchIdle

otherThanApp ==
    << cwd, discVars, transVars, probeVars, writerVars, wfs, callVars, readVars,
       tripVars, batchVars >>

\* usize::saturating_sub.
saturating_sub(a, b) == IF a >= b THEN a - b ELSE 0

\* For the properties: every check in flight was launched for a list that is
\* no longer the one on display.
MarkStale(q) == [i \in 1..Len(q) |-> [q[i] EXCEPT !.stale = TRUE]]

\* App::refresh: the list is rebuilt by discover over the files as they are
\* by now (the writer, or anyone else, may have changed them since the last
\* discovery); the selection is clamped.
Refresh ==
    /\ fs' \in AppFiles
    /\ aresult' = Discovered[fs']
    /\ selected' = IF selected >= Len(aresult'.servers)
                   THEN saturating_sub(Len(aresult'.servers), 1)
                   ELSE selected
    /\ threads' = MarkStale(threads)
    /\ health_rx' = MarkStale(health_rx)
    /\ UNCHANGED << checking_count, now, ahist, otherThanApp >>

\* App::move_up / App::move_down.
move_up ==
    /\ selected > 0
    /\ selected' = selected - 1
    /\ UNCHANGED << fs, aresult, checking_count, threads, health_rx, now, ahist,
                    otherThanApp >>

\* move_down without its test.
MutMoveDownUnguarded ==
    /\ selected' = selected + 1
    /\ UNCHANGED << fs, aresult, checking_count, threads, health_rx, now, ahist,
                    otherThanApp >>

move_down ==
    /\ selected + 1 < Len(aresult.servers)
    /\ selected' = selected + 1
    /\ UNCHANGED << fs, aresult, checking_count, threads, health_rx, now, ahist,
                    otherThanApp >>

\* servers[idx].health = HealthStatus::Checking (idx counts from 0).
SetChecking(servers, idx) == [servers EXCEPT ![idx + 1].health = Checking]

\* The thread spawn_health_check(idx, server, tx) starts; id numbers the
\* launches (for the properties).
Thread(idx, server, id) == [index |-> idx, server |-> server, stale |-> FALSE, id |-> id]

\* check_selected without the is_stdio test.
MutCheckSelectedAny ==
    /\ ahist.launches < MaxLaunches
    /\ selected < Len(aresult.servers)
    /\ aresult' = [aresult EXCEPT !.servers = SetChecking(@, selected)]
    /\ checking_count' = checking_count + 1
    /\ threads' = Append(threads, Thread(selected, aresult.servers[selected + 1],
                                       ahist.launches + 1))
    /\ ahist' = [ahist EXCEPT !.launches = @ + 1, !.launched = Append(@, selected)]
    /\ UNCHANGED << fs, selected, health_rx, now, otherThanApp >>

\* App::check_selected: nothing for no selection or a server that is not
\* stdio; else the slot shows Checking and a thread is launched.
check_selected ==
    /\ ahist.launches < MaxLaunches
    /\ selected < Len(aresult.servers)
    /\ is_stdio(aresult.servers[selected + 1].transport)
    /\ aresult' = [aresult EXCEPT !.servers = SetChecking(@, selected)]
    /\ checking_count' = checking_count + 1
    /\ threads' = Append(threads, Thread(selected, aresult.servers[selected + 1],
                                       ahist.launches + 1))
    /\ ahist' = [ahist EXCEPT !.launches = @ + 1, !.launched = Append(@, selected)]
    /\ UNCHANGED << fs, selected, health_rx, now, otherThanApp >>

\* The indices (from 0) of the stdio servers, in list order.
StdioIndices(servers) ==
    SelectSeq([i \in 1..Len(servers) |-> i - 1],
              LAMBDA i : is_stdio(servers[i + 1].transport))

\* App::check_all: every stdio server shows Checking and gets a thread.
check_all ==
    LET idxs == StdioIndices(aresult.servers)
    IN  /\ idxs # << >>
        /\ ahist.launches + Len(idxs) <= MaxLaunches
        /\ aresult' = [aresult EXCEPT !.servers =
                          [i \in 1..Len(@) |->
                              IF is_stdio(@[i].transport)
                              THEN [@[i] EXCEPT !.health = Checking] ELSE @[i]]]
        /\ checking_count' = checking_count + Len(idxs)
        /\ threads' = threads \o
                      [k \in 1..Len(idxs) |->
                          Thread(idxs[k], aresult.servers[idxs[k] + 1], ahist.launches + k)]
        /\ ahist' = [ahist EXCEPT !.launches = @ + Len(idxs), !.launched = @ \o idxs]
        /\ UNCHANGED << fs, selected, health_rx, now, otherThanApp >>

\* Sequence q without its element i.
Without(q, i) == SubSeq(q, 1, i - 1) \o SubSeq(q, i + 1, Len(q))

\* The thread waiting, before it sends, until the caller has taken every
\* earlier result.
MutThreadDoneWhenPolled(i, status) ==
    /\ health_rx = << >>
    /\ i \in 1..Len(threads)
    /\ status \in ThreadOutcomes(threads[i].server.transport)
    /\ health_rx' = Append(health_rx,
                           [r |-> HealthResult(threads[i].index, status, now),
                            server |-> threads[i].server,
                            stale |-> threads[i].stale, id |-> threads[i].id])
    /\ threads' = Without(threads, i)
    /\ now' = now + 1
    /\ ahist' = [ahist EXCEPT !.sent = @ \cup {[id |-> threads[i].id,
                                                 index |-> threads[i].index]}]
    /\ UNCHANGED << fs, aresult, selected, checking_count, otherThanApp >>

\* A thread of spawn_health_check finishes: it sends its HealthResult,
\* stamped with the time, on the unbounded channel (health.rs lines 39-43).
ThreadDone(i, status) ==
    /\ i \in 1..Len(threads)
    /\ status \in ThreadOutcomes(threads[i].server.transport)
    /\ health_rx' = Append(health_rx,
                           [r |-> HealthResult(threads[i].index, status, now),
                            server |-> threads[i].server,
                            stale |-> threads[i].stale, id |-> threads[i].id])
    /\ threads' = Without(threads, i)
    /\ now' = now + 1
    /\ ahist' = [ahist EXCEPT !.sent = @ \cup {[id |-> threads[i].id,
                                                 index |-> threads[i].index]}]
    /\ UNCHANGED << fs, aresult, selected, checking_count, otherThanApp >>

\* The bounds check off by one: the last slot never gets its result.
MutApplyOffByOne(servers, r) ==
    IF r.server_index + 1 < Len(servers)
    THEN [servers EXCEPT ![r.server_index + 1] =
              [@ EXCEPT !.health = r.status, !.last_checked = SomeOf(r.checked_at)]]
    ELSE servers

\* poll_health, lines 113-116: the result is applied to the slot of its index
\* when the list has one.
ApplyResult(servers, r) ==
    IF r.server_index < Len(servers)
    THEN [servers EXCEPT ![r.server_index + 1] =
              [@ EXCEPT !.health = r.status, !.last_checked = SomeOf(r.checked_at)]]
    ELSE servers

RECURSIVE ApplyResults(_, _)
ApplyResults(servers, q) ==
    IF q = << >> THEN servers
    ELSE ApplyResults(ApplyResult(servers, Head(q).r), Tail(q))

\* poll_health counting down once for all the results it took.
MutPollCountsOnce ==
    /\ health_rx # << >>
    /\ aresult' = [aresult EXCEPT !.servers = ApplyResults(@, health_rx)]
    /\ checking_count' = saturating_sub(checking_count, 1)
    /\ health_rx' = << >>
    /\ UNCHANGED << fs, selected, threads, now, ahist, otherThanApp >>

\* App::poll_health: every result that has arrived is taken and applied.
poll_health ==
    /\ health_rx # << >>
    /\ aresult' = [aresult EXCEPT !.servers = ApplyResults(@, health_rx)]
    /\ checking_count' = saturating_sub(checking_count, Len(health_rx))
    /\ health_rx' = << >>
    /\ UNCHANGED << fs, selected, threads, now, ahist, otherThanApp >>

NextApp ==
    \/ Refresh \/ move_up \/ move_down
    \/ check_selected \/ check_all
    \/ \E i \in 1..MaxLaunches, status \in StdioOutcomes \cup {Unsupported} :
          ThreadDone(i, status)
    \/ poll_health

SpecApp == InitApp /\ [][NextApp]_vars

Final == {"Healthy", "Timeout", "Error"}

\* The moves of the per-slot state machine; a rebuilt list starts its slots
\* at Unchecked.
Allowed(h, h2) ==
    \/ h2 = h
    \/ h2.t = "Unchecked"
    \/ h.t = "Unchecked" /\ h2.t = "Checking"
    \/ h.t = "Checking" /\ h2.t \in Final
    \/ h.t \in Final /\ h2.t = "Checking"

\* C11: in every step, the health of every slot stays or moves along
\* Unchecked -> Checking -> {Healthy, Timeout, Error} -> Checking (or back to
\* Unchecked when the list is rebuilt); never from Unchecked to a final state,
\* nor from one final state to another.
C11_SlotTransitions ==
    [][\A i \in 1..Len(aresult.servers) :
          i <= Len(aresult'.servers) =>
              Allowed(aresult.servers[i].health, aresult'.servers[i].health)]_vars

\* A result is out of date when the list was rebuilt since its launch and its
\* slot is gone or holds another server.
Identity(server) == << server.name, server.client >>
OutOfDate(m) ==
    /\ m.stale
    /\ \/ m.r.server_index >= Len(aresult.servers)
       \/ Identity(aresult.servers[m.r.server_index + 1]) # Identity(m.server)

\* C12: poll_health drops the results that are out of date: the list after it
\* is the list with only the other results applied.
C12_StaleResultDropped ==
    [][(health_rx # << >> /\ health_rx' = << >>) =>
          aresult'.servers =
              ApplyResults(aresult.servers,
                           SelectSeq(health_rx, LAMBDA m : ~OutOfDate(m)))]_vars

\* The probe threads are scheduled; nothing makes the caller poll.
ThreadSteps ==
    \E i \in 1..MaxLaunches, status \in StdioOutcomes \cup {Unsupported} :
        ThreadDone(i, status)

SpecAppThreads == SpecApp /\ WF_vars(ThreadSteps)

\* The launches whose thread has not sent, and how often launch id has sent.
InFlight == {threads[i].id : i \in 1..Len(threads)}
SentBy(id) == {m \in ahist.sent : m.id = id}

\* C27: every launch has either its thread still running or exactly one
\* result sent, tagged with the index it was launched for; and no launch
\* stays without its result forever, whether or not the caller polls.
C27_OneResultPerProbe ==
    /\ [](\A id \in 1..ahist.launches :
            /\ Cardinality(SentBy(id)) + Cardinality({i \in 1..Len(threads) : threads[i].id = id}) = 1
            /\ \A m \in SentBy(id) : m.index = ahist.launched[id])
    /\ \A id \in 1..MaxLaunches : []<>(ahist.launches >= id => SentBy(id) # {})

\* C27 witness: two probes ran at once and finished in the other order than
\* they were launched, and both results wait in the channel, never polled.
C27_Witness ==
    /\ ahist.launches = 2 /\ threads = << >> /\ Len(health_rx) = 2
    /\ health_rx[1].id = 2 /\ health_rx[2].id = 1
    /\ health_rx[1].r.server_index = ahist.launched[2]
    /\ health_rx[2].r.server_index = ahist.launched[1]
    /\ ahist.launched[1] # ahist.launched[2]

\* The probe threads are scheduled and the control loop polls.
SpecAppFair == SpecApp /\ WF_vars(ThreadSteps) /\ WF_vars(poll_health)

\* Slot i (from 1) of the list on display shows Checking.
SlotChecking(i) == i <= Len(aresult.servers) /\ aresult.servers[i].health = Checking

\* The slots (from 1) a list on display can have.
Slots == UNION {1..Len(Discovered[f].servers) : f \in AppFiles}

\* C29: no slot shows Checking forever: again and again it does not (a result
\* was applied to it, or a refresh rebuilt the list).
C29_CheckingEnds ==
    \A i \in Slots : []<>(~SlotChecking(i))

\* C29 witness: a slot left Checking by a result that poll_health applied.
C29_Witness ==
    /\ ahist.launches > 0 /\ threads = << >> /\ health_rx = << >>
    /\ \E i \in 1..Len(aresult.servers) :
          /\ aresult.servers[i].health = HTimeout
          /\ aresult.servers[i].last_checked # NONE

(***************************************************************************)
(* try_parse_response over the shapes of a parsed value.                   *)
(***************************************************************************)
\* What the function returned, as opposed to not having been called.
Ret(v) == [t |-> "ret", v |-> v]

\* An object with the members of ks that are there (not NONE) in f.
ObjOf(ks, f) == JObj([k \in {x \in ks : f[x] # NONE} |-> f[k]])

\* result.serverInfo with a name and a version that is absent, a string, or
\* something else.
ServerInfos ==
    { ObjOf({"name", "version"}, [name |-> n, version |-> v]) :
        n \in {NONE, JStr("x"), JNum(1)}, v \in {NONE, JStr("1.0"), JNull} }

ResultOptions ==
    {NONE, JNull, JObj(EmptyMap), JObj(Map1("serverInfo", JStr("s")))}
        \cup {JObj(Map1("serverInfo", i)) : i \in ServerInfos}

ErrorOptions ==
    { NONE, JStr("bad"), JObj(EmptyMap), JObj(Map1("message", JStr("boom"))),
      JObj(Map1("message", JNum(5))) }

\* A JSON-RPC message with an id and the given result and error members.
Response(r, e) ==
    ObjOf({"id", "result", "error"}, [id |-> JNum(1), result |-> r, error |-> e])

\* The output handed to try_parse_response: one message, maybe after a header
\* and before whitespace.
InitResponse ==
    /\ \E r \in ResultOptions, e \in ErrorOptions,
          pre \in {<< >>, << Pre >>}, post \in {<< >>, << Ws >>} :
          rdata = pre \o Text(Response(r, e)) \o post
    /\ rstatus = NONE
    /\ FilesIdle
    /\ DiscoverIdle
    /\ TransportIdle
    /\ ProbeIdle
    /\ WriterIdle
    /\ SnapIdle /\ CallIdle /\ AppIdle
    /\ TripIdle /\ BatchIdle

otherThanRead ==
    << fileVars, discVars, transVars, probeVars, writerVars, wfs, callVars, appVars,
       tripVars, batchVars >>

ParseResponse ==
    /\ rstatus = NONE
    /\ rstatus' = Ret(try_parse_response(rdata))
    /\ UNCHANGED << rdata, otherThanRead >>

NextResponse == ParseResponse

SpecResponse == InitResponse /\ [][NextResponse]_vars

\* The value in rdata, and its member at a path of keys when every step of
\* the path is an object member; else NONE.
TheValue == rdata[CHOOSE i \in 1..Len(rdata) : rdata[i].t = "part"].msg

RECURSIVE At(_, _)
At(v, path) ==
    IF path = << >> THEN v
    ELSE IF v.t = "obj" /\ Head(path) \in DOMAIN v.m
    THEN At(v.m[Head(path)], Tail(path))
    ELSE NONE

StringAt(v, path, default) ==
    IF At(v, path).t = "str" THEN At(v, path).s ELSE default

\* C14: a value with a result member gives Healthy with result.serverInfo's
\* name and version, "unknown" for one that is absent or no string, also when
\* there is an error member too; a value with an error member and no result
\* gives Error with error.message or "unknown error".
C14_ResponseShapes ==
    rstatus # NONE =>
        IF At(TheValue, << "result" >>) # NONE
        THEN rstatus.v =
                Healthy(StringAt(TheValue, << "result", "serverInfo", "name" >>, "unknown"),
                        StringAt(TheValue, << "result", "serverInfo", "version" >>, "unknown"))
        ELSE At(TheValue, << "error" >>) # NONE =>
                rstatus.v =
                    HError(Fmt("server error: {}",
                               JStr(StringAt(TheValue, << "error", "message" >>,
                                             "unknown error"))))

\* C14 witness: a value with both members, a name that is no string and a
\* version, parsed to Healthy("unknown", "1.0").
C14_Witness ==
    /\ rstatus # NONE
    /\ At(TheValue, << "result" >>) # NONE /\ At(TheValue, << "error" >>) # NONE
    /\ At(TheValue, << "result", "serverInfo", "name" >>) = JNum(1)
    /\ rstatus.v = Healthy("unknown", "1.0")

(***************************************************************************)
(* The reader thread's end-of-file branch over received byte sequences.    *)
(***************************************************************************)
RunLens == {1, 66, 67, 199, 200, 201}
Runs == {Run(kind, n) : kind \in {"text", "bad"}, n \in RunLens}

\* What was received when the stream ended: nothing, one or two runs of
\* bytes, or a message, maybe after a run.
EofData ==
    {<< >>} \cup {<< a >> : a \in Runs} \cup {<< a, b >> : a \in Runs, b \in Runs}
        \cup {Text(m) : m \in Msgs} \cup {<< a >> \o Text(m) : a \in Runs, m \in Msgs}

InitEof ==
    /\ rdata \in EofData
    /\ rstatus = NONE
    /\ FilesIdle
    /\ DiscoverIdle
    /\ TransportIdle
    /\ ProbeIdle
    /\ WriterIdle
    /\ SnapIdle /\ CallIdle /\ AppIdle
    /\ TripIdle /\ BatchIdle

EofBranch ==
    /\ rstatus = NONE
    /\ rstatus' = Ret(EofMessage(rdata))
    /\ UNCHANGED << rdata, otherThanRead >>

NextEof == EofBranch

SpecEof == InitEof /\ [][NextEof]_vars

\* C16: at end of file with no answer extracted, nothing received gives
\* Error("no response from server"), and anything else gives an Error whose
\* preview of the received data is at most 200 bytes long.
C16_EofPreviewBounded ==
    rstatus # NONE /\ try_parse_response(rdata) = NONE =>
        /\ ~rstatus.v.ok
        /\ IF rdata = << >>
           THEN rstatus.v.v = Fmt("no response from server", NONE)
           ELSE /\ rstatus.v.v.text = "invalid response: {}"
                /\ ByteLen(rstatus.v.v.arg.data) <= PreviewLimit

\* 200 bytes that are not valid UTF-8 were received: the preview is 200
\* replacement characters, 600 bytes.
C16_PreviewTripled ==
    /\ rstatus # NONE
    /\ rdata = << Run("bad", PreviewLimit) >>
    /\ ByteLen(rstatus.v.v.arg.data) = 3 * PreviewLimit

\* The probes launched whose result poll_health has not taken: the threads
\* still running and the results waiting in the channel.
Outstanding ==
    {[id |-> threads[i].id, index |-> threads[i].index, server |-> threads[i].server] :
        i \in 1..Len(threads)}
    \cup {[id |-> health_rx[i].id, index |-> health_rx[i].r.server_index,
           server |-> health_rx[i].server] : i \in 1..Len(health_rx)}

\* C36: checking_count is the number of probes launched whose result
\* poll_health has not taken (so it is 0 exactly when there is none), every
\* launch being in flight, waiting or taken; and poll_health never takes
\* more results than checking_count counts.
C36_CountIsOutstanding ==
    /\ checking_count = Cardinality(Outstanding)
    /\ Cardinality(Outstanding) = Len(threads) + Len(health_rx)
    /\ {o.id : o \in Outstanding} \subseteq 1..ahist.launches
    /\ checking_count >= Len(health_rx)

\* C36 witness: two probes were launched, the list was refreshed, one result
\* waits and one thread still runs.
C36_Witness ==
    /\ checking_count = 2 /\ Len(threads) = 1 /\ Len(health_rx) = 1
    /\ threads[1].stale /\ health_rx[1].stale

\* Poll after poll the count comes back to 0.
C36_WitnessDrained ==
    /\ ahist.launches = MaxLaunches /\ checking_count = 0
    /\ threads = << >> /\ health_rx = << >>

\* C37: a slot that shows Checking holds a stdio server and has a probe
\* launched for its index whose result has not been applied; and no probe
\* is ever out for a server that is not stdio, nor does such a slot ever
\* show Checking: a request on such a slot launches nothing and leaves the
\* slot as it is.
C37_CheckingHasProbe ==
    /\ \A i \in 1..Len(aresult.servers) :
          aresult.servers[i].health = Checking =>
              /\ is_stdio(aresult.servers[i].transport)
              /\ \E o \in Outstanding : o.index = i - 1
    /\ \A o \in Outstanding : is_stdio(o.server.transport)

\* C37 witnesses: the selected slot, not the first, shows Checking with its
\* probe still running; the selection is on a server that is not stdio while
\* another slot is being checked.
C37_Witness ==
    /\ selected = 1 /\ Len(aresult.servers) = 2
    /\ aresult.servers[2].health = Checking
    /\ \E i \in 1..Len(threads) : threads[i].index = 1 /\ ~threads[i].stale

C37_WitnessRemote ==
    /\ selected = 1 /\ Len(aresult.servers) = 2
    /\ ~is_stdio(aresult.servers[2].transport)
    /\ aresult.servers[1].health = Checking /\ checking_count = 1
    /\ aresult.servers[2].health = Unchecked

(***************************************************************************)
(* app.rs: the add, remove and sync executors.  A dialog that was          *)
(* confirmed is in app.mode; the executor calls the config writer once per *)
(* selected client, sets the status line and refreshes.                    *)
(***************************************************************************)
\* The most clients selected in one dialog.
MaxBatch == 2

\* ClientKind::label().
label(client) ==
    CASE client = "ClaudeCodeGlobal" -> "CC-Global"
      [] client = "ClaudeCodeProject" -> "CC-Project"
      [] client = "CursorGlobal" -> "Cursor"
      [] client = "CursorProject" -> "Cur-Proj"
      [] client = "VsCodeProject" -> "VSCode"
      [] client = "Windsurf" -> "Windsurf"
      [] client = "ClaudeDesktop" -> "Desktop"

\* ClientKind::writable(): the kinds a dialog offers as write targets.
writable == ClientKindAll

\* App::clients_with_server(name), App::clients_without_server(name).
clients_with_server(res, name) ==
    LET have == SelectSeq(res.servers, LAMBDA s : s.name = name)
    IN  [i \in 1..Len(have) |-> have[i].client]

clients_without_server(res, name) ==
    LET w == clients_with_server(res, name)
        have == {w[i] : i \in 1..Len(w)}
    IN  SelectSeq(writable, LAMBDA c : c \notin have)

\* The dialogs' list of (client, selected) pairs with the clients of S ticked.
Ticked(list, S) == [i \in 1..Len(list) |-> [c |-> list[i], sel |-> list[i] \in S]]

\* selected_clients() of the three dialogs: the ticked clients, in list order.
selected_clients(list) ==
    LET on == SelectSeq(list, LAMBDA e : e.sel)
    IN  [i \in 1..Len(on) |-> on[i].c]

(***************************************************************************)
(* wizard.rs.  A text the user types is a sequence of pieces, each a blank, *)
(* an "=" or a word; the texts of the model never hold two words side by   *)
(* side, so the words of a text are its pieces other than blanks.          *)
(***************************************************************************)
\* str::trim, str::split_whitespace, str::split_once('='), and the String
\* of a text of one word.
RECURSIVE trim_start(_)
trim_start(text) ==
    IF text # << >> /\ text[1] = " " THEN trim_start(Tail(text)) ELSE text

RECURSIVE trim_end(_)
trim_end(text) ==
    IF text # << >> /\ text[Len(text)] = " "
    THEN trim_end(SubSeq(text, 1, Len(text) - 1))
    ELSE text

trim(text) == trim_end(trim_start(text))

split_whitespace(text) == SelectSeq(text, LAMBDA piece : piece # " ")

split_once(text) ==
    LET at == {i \in 1..Len(text) : text[i] = "="}
        first == CHOOSE i \in at : \A j \in at : i <= j
    IN  IF at = {} THEN NONE
        ELSE [t |-> "some", k |-> SubSeq(text, 1, first - 1),
              v |-> SubSeq(text, first + 1, Len(text))]

to_string(text) ==
    IF text = << >> THEN ""
    ELSE IF Len(text) = 1 THEN text[1]
    ELSE [t |-> "text", pieces |-> text]

\* The steps of the add wizard, in the order advance() walks them.
AddSteps == << "Name", "Command", "Args", "EnvVars", "Clients" >>

\* AddWizard::new(), RemoveConfirm::new, SyncSelect::new.  passed is for the
\* properties: the steps advance() has left, in order.
AddWizardNew ==
    [t |-> "AddWizard", step |-> "Name", name |-> << >>, command |-> << >>,
     args |-> << >>, env_lines |-> << >>, env_input |-> << >>,
     clients |-> Ticked(writable, {"ClaudeCodeProject"}), cursor |-> 0,
     error |-> NONE, passed |-> << >>]
RemoveConfirm(server_name, with_server) ==
    [t |-> "RemoveConfirm", server_name |-> server_name,
     clients |-> Ticked(with_server, {with_server[i] : i \in 1..Len(with_server)}),
     cursor |-> 0, step |-> "SelectClients"]
SyncSelect(server_name, server_value, missing_clients) ==
    [t |-> "SyncSelect", server_name |-> server_name, server_value |-> server_value,
     clients |-> Ticked(missing_clients, {}), cursor |-> 0]

\* AddWizard::parsed_args, AddWizard::parsed_env (a later line wins).
parsed_args(wiz) ==
    IF trim(wiz.args) = << >> THEN << >> ELSE split_whitespace(wiz.args)

RECURSIVE EnvOf(_)
EnvOf(lines) ==
    IF lines = << >> THEN EmptyMap
    ELSE LET earlier == EnvOf(SubSeq(lines, 1, Len(lines) - 1))
             kv == split_once(lines[Len(lines)])
         IN  IF kv = NONE THEN earlier
             ELSE MapInsert(earlier, to_string(trim(kv.k)), to_string(trim(kv.v)))

parsed_env(wiz) == EnvOf(wiz.env_lines)

\* The kinds the user ticks, and the selections: at least one kind (the
\* dialogs do not confirm an empty selection), at most MaxBatch.
BatchKinds == {"ClaudeCodeGlobal", "ClaudeCodeProject", "CursorProject"}
Selections(list) ==
    {S \in SUBSET (BatchKinds \cap {list[i] : i \in 1..Len(list)}) :
        Cardinality(S) \in 1..MaxBatch}

\* handle_normal, keys a, d and s, followed by the user's keys up to the
\* confirmation: the dialogs that can be up for confirmation over the list
\* on display.
Dialogs(res, sel) ==
    LET add == {[AddWizardNew EXCEPT !.step = "Confirm", !.name = << "alpha" >>,
                                     !.command = << "npx" >>,
                                     !.env_lines = << << "KEY", "=", "v" >> >>,
                                     !.clients = Ticked(writable, S),
                                     !.passed = AddSteps] :
                    S \in Selections(writable)}
        server == res.servers[sel + 1]
        present == clients_with_server(res, server.name)
        deletable == SelectSeq(present, LAMBDA c : c \in {writable[i] : i \in 1..Len(writable)})
        missing == clients_without_server(res, server.name)
    IN  IF res.servers = << >> THEN add
        ELSE add
             \cup {[RemoveConfirm(server.name, deletable) EXCEPT
                        !.clients = Ticked(deletable, S), !.step = "Confirm"] :
                      S \in Selections(deletable)}
             \cup {[SyncSelect(server.name, server_to_value(server), missing) EXCEPT
                        !.clients = Ticked(missing, S)] :
                      S \in Selections(missing)}

\* The files the executors run over: none; a project file holding [] beside
\* a project Cursor file; a project file that is not JSON beside the same;
\* the global, the project and the project Cursor file with the same server.
BatchFiles ==
    LET none == [q \in WriterPaths |-> Absent]
        mcp == Join("proj", ".mcp.json")
        cur == Join("proj", ".cursor/mcp.json")
    IN  { none,
          [none EXCEPT ![mcp] = Compact(JArr(<< >>)), ![cur] = Compact(Wrapped1("cur"))],
          [none EXCEPT ![mcp] = Garbage, ![cur] = Compact(Wrapped1("cur"))],
          [none EXCEPT ![home(".claude.json")] = Compact(Wrapped1("root")),
                       ![mcp] = Compact(Wrapped1("proj")),
                       ![cur] = Compact(Wrapped1("cur"))] }

InitBatch ==
    /\ cwd = "proj"
    /\ fs \in BatchFiles
    /\ aresult = discover(cwd, fs)
    /\ selected \in 0..saturating_sub(Len(aresult.servers), 1)
    /\ checking_count = 0 /\ threads = << >> /\ health_rx = << >> /\ now = 0
    /\ ahist = AHistIdle
    /\ mode \in Dialogs(aresult, selected)
    /\ status_message = NONE /\ bpc = "idle" /\ batch = NONE
    /\ DiscoverIdle
    /\ TransportIdle
    /\ ProbeIdle
    /\ WriterIdle
    /\ SnapIdle /\ CallIdle /\ ReadIdle
    /\ TripIdle

appAndFiles == << fileVars, appVars >>
otherThanBatch ==
    << discVars, transVars, probeVars, wfs, callVars, readVars, tripVars >>

\* execute_add, execute_remove, execute_sync up to their loop: the name, the
\* value and the selected clients; nothing collected yet.  attempts is for
\* the properties: the clients the writer was called for, in call order;
\* from and source are for the properties too: the dialog the executor was
\* called from and the record on display a sync copies.
Executor(fn, op, name, value, clients) ==
    [fn |-> fn, op |-> op, name |-> name, value |-> value, clients |-> clients,
     i |-> 1, errors |-> << >>, success_count |-> 0, attempts |-> << >>,
     from |-> mode,
     source |-> IF fn = "execute_sync" THEN aresult.servers[selected + 1] ELSE NONE]

Execute ==
    /\ bpc = "idle" /\ mode # Normal
    /\ batch' =
         CASE mode.t = "AddWizard" ->
                Executor("execute_add", "add", to_string(trim(mode.name)),
                         build_server_value(to_string(mode.command), parsed_args(mode),
                                            parsed_env(mode)),
                         selected_clients(mode.clients))
           [] mode.t = "RemoveConfirm" ->
                Executor("execute_remove", "remove", mode.server_name, NONE,
                         selected_clients(mode.clients))
           [] mode.t = "SyncSelect" ->
                Executor("execute_sync", "add", mode.server_name, mode.server_value,
                         selected_clients(mode.clients))
    /\ bpc' = "loop"
    /\ UNCHANGED << mode, status_message, appAndFiles, writerVars, otherThanBatch >>

\* A key that changes the dialog only.
Shown(dialog) ==
    /\ mode' = dialog
    /\ UNCHANGED << status_message, bpc, batch, appAndFiles, writerVars, otherThanBatch >>

\* The dialog is at its confirmation.
AtConfirm == mode.t \in {"AddWizard", "RemoveConfirm"} /\ mode.step = "Confirm"

\* y at a confirmation: execute_add, execute_remove.  Enter in the sync
\* dialog: execute_sync, unless nothing is ticked.
KeyY == AtConfirm /\ Execute

KeyEnterSync ==
    /\ mode.t = "SyncSelect"
    /\ IF selected_clients(mode.clients) = << >> THEN bpc = "idle" /\ Shown(mode) ELSE Execute

\* One pass of `for client in &clients`: the call of add_server or
\* remove_server for the next client ...
Attempted == [batch EXCEPT !.attempts = Append(@, batch.clients[batch.i])]

CallWriter ==
    /\ bpc = "loop" /\ batch.i <= Len(batch.clients)
    /\ Resolved(batch.op, batch.clients[batch.i], batch.name, batch.value)
    /\ batch' = Attempted
    /\ UNCHANGED << mode, status_message, bpc >>

CallWriterNoPath ==
    /\ bpc = "loop" /\ batch.i <= Len(batch.clients)
    /\ Unresolved(batch.op, batch.clients[batch.i], batch.name)
    /\ batch' = Attempted
    /\ UNCHANGED << mode, status_message, bpc >>

\* ... and the match on what it returned: Ok is counted, Err is pushed with
\* the client's label.
Collect ==
    /\ bpc = "loop" /\ wpc = "done"
    /\ batch' =
         IF wret = Ok
         THEN [batch EXCEPT !.success_count = @ + 1, !.i = @ + 1]
         ELSE [batch EXCEPT !.errors = Append(@, Fmt("{}: {}",
                                [label |-> label(batch.clients[batch.i]), e |-> wret.e])),
                            !.i = @ + 1]
    /\ wpc' = "idle" /\ wop' = NONE /\ wpath' = NONE /\ wroot' = NONE
    /\ wret' = NONE /\ wpre' = NONE /\ wnew' = NONE
    /\ UNCHANGED << mode, status_message, bpc, appAndFiles, otherThanBatch >>

\* The status line of a batch without errors, and of one with errors.
Verb(fn) ==
    CASE fn = "execute_add" -> "Added \"{}\" to {} client{}"
      [] fn = "execute_remove" -> "Removed \"{}\" from {} client{}"
      [] fn = "execute_sync" -> "Synced \"{}\" to {} client{}"

Joined(parts, sep) == [t |-> "join", parts |-> parts, sep |-> sep]

StatusOf(b) ==
    IF b.errors = << >>
    THEN Fmt(Verb(b.fn), [t |-> "count", name |-> b.name, count |-> b.success_count,
                          s |-> IF b.success_count = 1 THEN "" ELSE "s"])
    ELSE Fmt("Errors: {}", Joined(b.errors, "; "))

\* After the loop: set_status, mode = Normal, refresh.  The executor's
\* locals stay in batch for the properties.
Finish ==
    /\ bpc = "loop" /\ wpc = "idle" /\ batch.i > Len(batch.clients)
    /\ status_message' = StatusOf(batch)
    /\ mode' = Normal
    /\ aresult' = discover(cwd, fs)
    /\ selected' = IF selected >= Len(aresult'.servers)
                   THEN saturating_sub(Len(aresult'.servers), 1)
                   ELSE selected
    /\ bpc' = "done"
    /\ UNCHANGED << batch, fileVars, checking_count, threads, health_rx, now, ahist,
                    writerVars, otherThanBatch >>

NextBatch ==
    \/ KeyY \/ KeyEnterSync
    \/ CallWriter \/ CallWriterNoPath
    \/ CreateDirs \/ CreateDirsFails
    \/ ReadOrEmpty \/ ReadFails
    \/ Backup \/ BackupFails
    \/ Mutate
    \/ CreateTmp \/ WriteTmp \/ WriteTmpFails
    \/ Rename \/ RenameFails
    \/ Collect
    \/ Finish

SpecBatch == InitBatch /\ [][NextBatch]_vars

\* The executor is over: it returned, or the process went down in a call.
BatchOver == bpc = "done" \/ (bpc = "loop" /\ wpc = "panicked")

IsPrefix(a, b) == Len(a) <= Len(b) /\ a = SubSeq(b, 1, Len(a))

\* C23: the writer is called for the selected clients in selection order,
\* once each, and when the executor is over it was called for every one of
\* them, whatever the calls for the earlier clients gave.
C23_EveryClientAttempted ==
    batch # NONE =>
        /\ IsPrefix(batch.attempts, batch.clients)
        /\ BatchOver => batch.attempts = batch.clients

\* The add for the first of two clients panicked (C26): the second client
\* was never attempted.
C23_SecondNeverAttempted ==
    /\ bpc = "loop" /\ wpc = "panicked"
    /\ Len(batch.clients) = 2 /\ batch.attempts = << batch.clients[1] >>

\* For an executor that returns, C23 holds: an Err for an earlier client does
\* not stop the loop.
C23_AttemptedWhenReturned ==
    bpc = "done" => batch.attempts = batch.clients

\* What the status line tells: the number of clients updated, the failures.
TellsSuccesses(msg, b) ==
    msg # NONE /\ msg.arg.t = "count" /\ msg.arg.count = b.success_count
TellsFailures(msg, b) ==
    msg # NONE /\ msg.arg.t = "join" /\ msg.arg.parts = b.errors

\* C24: after a batch in which one client at least succeeded and one at
\* least failed, the status line tells both the number of clients updated
\* and the failures with their clients.
C24_BothReported ==
    bpc = "done" /\ batch.success_count >= 1 /\ batch.errors # << >> =>
        /\ TellsSuccesses(status_message, batch)
        /\ TellsFailures(status_message, batch)

\* A mixed batch: the status line holds the failure and no count.
C24_MixedBatchErrorsOnly ==
    /\ bpc = "done" /\ batch.success_count = 1 /\ Len(batch.errors) = 1
    /\ status_message = Fmt("Errors: {}", Joined(batch.errors, "; "))
(***************************************************************************)
(* app.rs and wizard.rs: the dialogs, key by key.  The list is on display  *)
(* in Normal mode; a opens the add wizard, d the remove dialog and s the   *)
(* sync dialog for the selected server; the dialog's keys lead to the      *)
(* executor or back to Normal mode.  A behaviour runs one executor.        *)
(***************************************************************************)
\* The kinds the user ticks or unticks in a dialog: the two whose file is in
\* the working directory, so that config_path always gives a path.
DialogKinds == {"ClaudeCodeProject", "CursorProject"}

\* What the user types at each text step of the wizard, piece by piece.
Typed(step) ==
    CASE step = "Name" -> << " ", "alpha" >>
      [] step = "Command" -> << "npx" >>
      [] step = "Args" -> << "-y" >>
      [] step = "EnvVars" -> << "KEY", "=", "v" >>

Pieces == {" ", "alpha", "npx", "-y", "KEY", "=", "v"}

\* The files the dialogs run over: none; a project file with one server; a
\* project file with a stdio and a remote server.
DialogFiles ==
    LET none == [q \in WriterPaths |-> Absent]
        mcp == Join("proj", ".mcp.json")
    IN  { none,
          [none EXCEPT ![mcp] = Compact(Wrapped1("proj"))],
          [none EXCEPT ![mcp] = Compact(Wrapped2("proj"))] }

\* App::new.
InitDialog ==
    /\ cwd = "proj"
    /\ fs \in DialogFiles
    /\ aresult = discover(cwd, fs)
    /\ selected = 0
    /\ checking_count = 0 /\ threads = << >> /\ health_rx = << >> /\ now = 0
    /\ ahist = AHistIdle
    /\ BatchIdle
    /\ DiscoverIdle
    /\ TransportIdle
    /\ ProbeIdle
    /\ WriterIdle
    /\ SnapIdle /\ CallIdle /\ ReadIdle
    /\ TripIdle

\* App::set_status from handle_normal.
Told(msg) ==
    /\ status_message' = msg
    /\ UNCHANGED << mode, bpc, batch, appAndFiles, writerVars, otherThanBatch >>

\* handle_normal: a, d, s.
KeyA ==
    /\ mode = Normal /\ bpc = "idle"
    /\ Shown(AddWizardNew)

KeyD ==
    /\ mode = Normal /\ bpc = "idle"
    /\ selected < Len(aresult.servers)
    /\ LET name == aresult.servers[selected + 1].name
           clients == clients_with_server(aresult, name)
           writable_clients ==
               SelectSeq(clients, LAMBDA c : c \in {writable[i] : i \in 1..Len(writable)})
       IN  IF writable_clients = << >>
           THEN Told(Fmt("No writable configs for this server", NONE))
           ELSE Shown(RemoveConfirm(name, writable_clients))

KeyS ==
    /\ mode = Normal /\ bpc = "idle"
    /\ selected < Len(aresult.servers)
    /\ LET server == aresult.servers[selected + 1]
           missing == clients_without_server(aresult, server.name)
       IN  IF missing = << >>
           THEN Told(Fmt("Server already in all clients", NONE))
           ELSE Shown(SyncSelect(server.name, server_to_value(server), missing))

\* handle_normal: up, down, r.  The files are as anyone left them by the
\* time of the refresh.
KeyUp == mode = Normal /\ move_up

KeyDown == mode = Normal /\ move_down

KeyR ==
    /\ mode = Normal /\ bpc \in {"idle", "done"}
    /\ fs' \in DialogFiles
    /\ aresult' = discover(cwd, fs')
    /\ selected' = IF selected >= Len(aresult'.servers)
                   THEN saturating_sub(Len(aresult'.servers), 1)
                   ELSE selected
    /\ UNCHANGED << cwd, checking_count, threads, health_rx, now, ahist, batchVars,
                    writerVars, otherThanBatch >>

\* AddWizard::push_char, AddWizard::pop_char.
Buffer(step) ==
    CASE step = "Name" -> "name"
      [] step = "Command" -> "command"
      [] step = "Args" -> "args"
      [] step = "EnvVars" -> "env_input"

push_char(wiz, c) == [wiz EXCEPT !.error = NONE, ![Buffer(wiz.step)] = Append(@, c)]

pop_char(wiz) ==
    [wiz EXCEPT ![Buffer(wiz.step)] =
        IF @ = << >> THEN @ ELSE SubSeq(@, 1, Len(@) - 1)]

\* AddWizard::advance skipping the test of the name.
MutAdvanceAnyName(wiz) ==
    CASE wiz.step = "Name" ->
            [wiz EXCEPT !.step = "Command", !.passed = Append(@, "Name")]
      [] wiz.step = "Command" ->
            IF trim(wiz.command) = << >>
            THEN [wiz EXCEPT !.error = SomeOf("Command cannot be empty")]
            ELSE [wiz EXCEPT !.step = "Args", !.passed = Append(@, "Command")]
      [] wiz.step = "Args" ->
            [wiz EXCEPT !.step = "EnvVars", !.passed = Append(@, "Args")]
      [] wiz.step = "EnvVars" ->
            IF wiz.env_input = << >>
            THEN [wiz EXCEPT !.step = "Clients", !.cursor = 0,
                             !.passed = Append(@, "EnvVars")]
            ELSE IF \E i \in 1..Len(wiz.env_input) : wiz.env_input[i] = "="
            THEN [wiz EXCEPT !.env_lines = Append(@, wiz.env_input), !.env_input = << >>]
            ELSE [wiz EXCEPT !.error = SomeOf("Format: KEY=VALUE")]
      [] wiz.step = "Clients" ->
            IF selected_clients(wiz.clients) = << >>
            THEN [wiz EXCEPT !.error = SomeOf("Select at least one client")]
            ELSE [wiz EXCEPT !.step = "Confirm", !.passed = Append(@, "Clients")]
      [] wiz.step = "Confirm" -> wiz

\* AddWizard::advance.
advance(wiz) ==
    CASE wiz.step = "Name" ->
            IF trim(wiz.name) = << >>
            THEN [wiz EXCEPT !.error = SomeOf("Server name cannot be empty")]
            ELSE [wiz EXCEPT !.step = "Command", !.passed = Append(@, "Name")]
      [] wiz.step = "Command" ->
            IF trim(wiz.command) = << >>
            THEN [wiz EXCEPT !.error = SomeOf("Command cannot be empty")]
            ELSE [wiz EXCEPT !.step = "Args", !.passed = Append(@, "Command")]
      [] wiz.step = "Args" ->
            [wiz EXCEPT !.step = "EnvVars", !.passed = Append(@, "Args")]
      [] wiz.step = "EnvVars" ->
            IF wiz.env_input = << >>
            THEN [wiz EXCEPT !.step = "Clients", !.cursor = 0,
                             !.passed = Append(@, "EnvVars")]
            ELSE IF \E i \in 1..Len(wiz.env_input) : wiz.env_input[i] = "="
            THEN [wiz EXCEPT !.env_lines = Append(@, wiz.env_input), !.env_input = << >>]
            ELSE [wiz EXCEPT !.error = SomeOf("Format: KEY=VALUE")]
      [] wiz.step = "Clients" ->
            IF selected_clients(wiz.clients) = << >>
            THEN [wiz EXCEPT !.error = SomeOf("Select at least one client")]
            ELSE [wiz EXCEPT !.step = "Confirm", !.passed = Append(@, "Clients")]
      [] wiz.step = "Confirm" -> wiz

\* RemoveConfirm::advance.
advance_remove(rm) ==
    IF rm.step = "SelectClients" /\ selected_clients(rm.clients) # << >>
    THEN [rm EXCEPT !.step = "Confirm"]
    ELSE rm

\* toggle_client, cursor_up, cursor_down of the three dialogs.
toggle_client(dialog) ==
    IF dialog.cursor < Len(dialog.clients)
    THEN [dialog EXCEPT !.clients[dialog.cursor + 1].sel = ~@]
    ELSE dialog

cursor_up(dialog) ==
    IF dialog.cursor > 0 THEN [dialog EXCEPT !.cursor = @ - 1] ELSE dialog

cursor_down(dialog) ==
    IF dialog.cursor + 1 < Len(dialog.clients)
    THEN [dialog EXCEPT !.cursor = @ + 1]
    ELSE dialog

\* The dialog is at a step that takes text, and at one that takes the
\* cursor keys and the space bar.
AtText == mode.t = "AddWizard" /\ mode.step \in {"Name", "Command", "Args", "EnvVars"}

AtClients ==
    \/ mode.t = "AddWizard" /\ mode.step = "Clients"
    \/ mode.t = "RemoveConfirm" /\ mode.step = "SelectClients"
    \/ mode.t = "SyncSelect"

\* handle_add_wizard at a text step: a character, the backspace, the Enter
\* key.  The user types along Typed and enters one environment line at most.
KeyChar ==
    /\ bpc = "idle" /\ AtText
    /\ \E c \in Pieces :
          /\ IsPrefix(Append(mode[Buffer(mode.step)], c), Typed(mode.step))
          /\ Shown(push_char(mode, c))

KeyBackspace ==
    /\ bpc = "idle" /\ AtText
    /\ Shown(pop_char(mode))

KeyEnter ==
    /\ bpc = "idle" /\ mode.t = "AddWizard" /\ mode.step # "Confirm"
    /\ mode.step = "EnvVars" /\ mode.env_input # << >> => mode.env_lines = << >>
    /\ Shown(advance(mode))

\* handle_remove: the Enter key.
KeyEnterRemove ==
    /\ bpc = "idle" /\ mode.t = "RemoveConfirm" /\ mode.step = "SelectClients"
    /\ Shown(advance_remove(mode))

\* The three handlers at the list of clients: up, down, space.  The user
\* goes down as far as the last kind of DialogKinds and ticks those only.
KeyCursorUp ==
    /\ bpc = "idle" /\ AtClients
    /\ Shown(cursor_up(mode))

KeyCursorDown ==
    /\ bpc = "idle" /\ AtClients
    /\ \E j \in (mode.cursor + 2)..Len(mode.clients) : mode.clients[j].c \in DialogKinds
    /\ Shown(cursor_down(mode))

KeySpace ==
    /\ bpc = "idle" /\ AtClients
    /\ mode.cursor < Len(mode.clients) => mode.clients[mode.cursor + 1].c \in DialogKinds
    /\ Shown(toggle_client(mode))

\* Esc in a dialog; n at a confirmation.
KeyEsc ==
    /\ bpc = "idle" /\ mode # Normal
    /\ Shown(Normal)

KeyN ==
    /\ bpc = "idle" /\ AtConfirm
    /\ Shown(Normal)

NextDialog ==
    \/ KeyA \/ KeyD \/ KeyS
    \/ KeyUp \/ KeyDown \/ KeyR
    \/ KeyChar \/ KeyBackspace \/ KeyEnter \/ KeyEnterRemove
    \/ KeyCursorUp \/ KeyCursorDown \/ KeySpace
    \/ KeyEsc \/ KeyN \/ KeyY \/ KeyEnterSync
    \/ CallWriter
    \/ CreateDirs \/ CreateDirsFails
    \/ ReadOrEmpty \/ ReadFails
    \/ Backup \/ BackupFails
    \/ Mutate
    \/ CreateTmp \/ WriteTmp \/ WriteTmpFails
    \/ Rename \/ RenameFails
    \/ Collect
    \/ Finish

SpecDialog == InitDialog /\ [][NextDialog]_vars

\* The executor's dialog passed every test of its steps.
Validated(dialog) ==
    CASE dialog.t = "AddWizard" ->
            /\ dialog.step = "Confirm" /\ dialog.passed = AddSteps
            /\ trim(dialog.name) # << >> /\ trim(dialog.command) # << >>
            /\ selected_clients(dialog.clients) # << >>
      [] dialog.t = "RemoveConfirm" ->
            dialog.step = "Confirm" /\ selected_clients(dialog.clients) # << >>
      [] dialog.t = "SyncSelect" -> selected_clients(dialog.clients) # << >>
      [] OTHER -> FALSE

\* C38: an executor runs only from a dialog that passed its steps in order
\* with a name and a command that are not blank and a client ticked (a
\* client ticked, for remove and sync); the writer is called by an executor
\* only; leaving a dialog for Normal mode without an executor (Esc at any
\* step, n at a confirmation) touches no file and calls no writer.
C38_ValidatedDialogsOnly ==
    /\ [](batch # NONE => Validated(batch.from) /\ batch.clients # << >>)
    /\ [](wpc # "idle" => batch # NONE)
    /\ [][mode # Normal /\ mode' = Normal /\ bpc' = "idle" =>
              fs' = fs /\ wpc' = "idle" /\ batch' = NONE]_vars

\* An add ran to its end after the wizard; the wizard refused a blank name;
\* the remove dialog is back at its list with nothing ticked.
C38_Witness ==
    /\ bpc = "done" /\ batch.fn = "execute_add" /\ batch.name = "alpha"
    /\ batch.from.name = << " ", "alpha" >> /\ batch.success_count = 1

C38_WitnessRefused ==
    /\ mode.t = "AddWizard" /\ mode.step = "Name" /\ mode.name = << " " >>
    /\ mode.error = SomeOf("Server name cannot be empty")

C38_WitnessNothingTicked ==
    /\ mode.t = "RemoveConfirm" /\ mode.step = "SelectClients"
    /\ selected_clients(mode.clients) = << >> /\ bpc = "idle"

\* C35: when execute_sync ends without an error, the list it rebuilds holds
\* for every target client a record of the synced name with the transport
\* and the environment of the record the sync started from.
C35_SyncReplicates ==
    [][bpc = "loop" /\ bpc' = "done" /\ batch.fn = "execute_sync" /\ batch.errors = << >> =>
          \A i \in 1..Len(batch.clients) :
              \E r \in Records(aresult', batch.clients[i], batch.name) :
                  /\ r.transport = batch.source.transport
                  /\ r.env = batch.source.env]_vars

\* A remote server was synced without an error: the target's record has no
\* url.
C35_RemoteNotReplicated ==
    /\ bpc = "done" /\ batch.fn = "execute_sync" /\ batch.errors = << >>
    /\ batch.source.transport.t = "Http" /\ batch.value = JObj(EmptyMap)
    /\ batch.clients = << "CursorProject" >>
    /\ Records(aresult, "CursorProject", batch.name) # {}
    /\ \A r \in Records(aresult, "CursorProject", batch.name) : r.transport.t # "Http"

\* For a stdio source the sync replicates.
C35_StdioReplicated ==
    [][bpc = "loop" /\ bpc' = "done" /\ batch.fn = "execute_sync" /\ batch.errors = << >>
         /\ is_stdio(batch.source.transport) =>
          \A i \in 1..Len(batch.clients) :
              \E r \in Records(aresult', batch.clients[i], batch.name) :
                  /\ r.transport = batch.source.transport
                  /\ r.env = batch.source.env]_vars

\* C40: the selection is a slot of the list whenever the list has one, and 0
\* when it has none.
C40_SelectionValid ==
    /\ aresult.servers # << >> => selected < Len(aresult.servers)
    /\ aresult.servers = << >> => selected = 0

\* The last server of the list was selected and removed: the selection is
\* the slot before; the only server was removed: the selection is 0; a
\* server was added to an empty list.
C40_Witness ==
    /\ bpc = "done" /\ batch.fn = "execute_remove" /\ batch.name = "beta"
    /\ batch.success_count = 1
    /\ Len(aresult.servers) = 1 /\ selected = 0

C40_WitnessEmptied ==
    /\ bpc = "done" /\ batch.fn = "execute_remove" /\ batch.success_count = 1
    /\ aresult.servers = << >> /\ selected = 0

C40_WitnessMoved ==
    /\ bpc = "done" /\ batch.fn = "execute_sync" /\ batch.success_count = 1
    /\ Len(aresult.servers) = 3 /\ selected = 2
=============================================================================
